---- MODULE Spec2Model ----
(***************************************************************************)
(* A model of recompose (jveski/recompose): the agent's inventory client   *)
(* and podman reconciler driven by RunLoop, the StateContainer that        *)
(* couples them, and the coordinator's API.                                *)
(*                                                                         *)
(* Spec / LiveSpec : one agent process (inventory client, reconciler, the  *)
(*                   container runtime and the coordinator as seen by the  *)
(*                   agent).  StateContainer operations are atomic here,   *)
(*                   which the mutex of the container justifies.           *)
(* SpecSC          : the StateContainer alone, one step per statement,     *)
(*                   with the mutex modelled explicitly.                   *)
(* LiveSpecSC, LiveSpecPodman : SpecSC and Spec under the fairness that    *)
(*                   the scheduler and the mutex give.                     *)
(* SpecRL          : RunLoop alone, with the durations it sleeps.          *)
(* SpecLP / LiveSpecLP : the coordinator's long poll GET /nodeinventory,   *)
(*                   one step per statement.                               *)
(* SpecAuth        : the coordinator's routes behind rpc.WithAuth.         *)
(* SpecTLS         : the rpc client's VerifyPeerCertificate.               *)
(* SpecSync        : the coordinator's main, syncInventory and the node    *)
(*                   registry.                                             *)
(* SpecStatus      : the coordinator's GET /status.                        *)
(* SpecCert        : rpc.GenCertificate on one directory.                  *)
(* SpecRead        : the coordinator's readInventory loop over the nodes   *)
(*                   and their container files.                            *)
(* SpecWedge / LiveSpecWedge : syncPodman's passes for a fixed goal, with  *)
(*                   a container whose removal fails every time.           *)
(* SpecInvFile     : the agent's syncInventory and inventory.toml, against *)
(*                   any sequence of responses and restarts.               *)
(***************************************************************************)
EXTENDS Integers, Sequences, FiniteSets, TLC

VARIABLES
    \* ---- coordinator, as the agent sees it
    coordIdx,     \* index of the published inventory; its gitSHA
    coordUp,      \* the coordinator is reachable
    trusted,      \* this node's fingerprint is a key of nodesByFingerprint
    \* ---- agent: StateContainer[*NodeInventory] and disk
    current,      \* StateContainer.current (nil before any Swap)
    wch,          \* the reconciler's watcher channel (capacity 1)
    file,         \* content of inventory.toml
    mounts,       \* names of the files under mounts/
    \* ---- agent: the two RunLoops
    ch,           \* RunLoop's internal channel, per loop
    fwd,          \* the signal-forwarding goroutine, per loop
    lpc,          \* the position of RunLoop's main loop, per loop
    \* ---- agent: syncPodman in flight
    snapGoal,     \* the inventory returned by state.Get()
    snapObs,      \* the list returned by podmanPs()
    \* ---- agent: syncInventory in flight
    after,        \* the ?after= parameter of the request in flight
    resp,         \* the response being processed
    \* ---- container runtime
    containers,   \* the managed containers (label createdBy=recompose)
    \* ---- environment budgets
    budget,       \* what the environment may still do
    \* ---- history
    lastPass,     \* what the last completed syncPodman call did
    outage,       \* what held when the agent restarted with the coordinator down
    \* ---- StateContainer, statement by statement (SpecSC)
    locked,       \* s.lock: the goroutines inside lock.Lock() ... Unlock()
    scCurrent,    \* s.current
    watchers,     \* the keys of s.watchers (each Watch call has its own ctx)
    wchan,        \* per ctx: length of the channel made by Watch(ctx)
    wclosed,      \* per ctx: the channel has been closed
    ctxDone,      \* the cancelled contexts
    cpc,          \* per caller: the call in progress and its position
    cval,         \* per caller: the argument of Swap
    cret,         \* per caller: what the last Get returned
    todo,         \* per caller: the watchers bumpUnlocked has still to visit
    wpc,          \* per ctx: the goroutine that calls Watch(ctx) and ranges over it
    wret,         \* per ctx: what that goroutine's last Get returned
    dpc,          \* per ctx: the goroutine Watch starts to wait for ctx.Done()
    swaps,        \* number of Swap calls made
    hist,         \* history: the values written to s.current, in order
    completed,    \* history: the value of the last Swap that returned
    owed,         \* history: watchers registered at a write that received nothing since
    wake,         \* history: per ctx, the writes done when it received its wake
    \* ---- RunLoop alone, with its durations in nanoseconds (SpecRL)
    rpc,          \* the main loop: "init", "recv", "fn", "backoff", "cooldown"
    rch,          \* length of ch
    rsig,         \* length of the signal channel
    rfwd,         \* the forwarding goroutine: "recv" or "send"
    rargs,        \* the arguments resync and maxRetry of the call
    lastRetry,    \* attempt's lastRetry
    fails,        \* history: consecutive false returns of fn in this attempt
    calls,        \* history: whether fn was called, and what the last call returned
    sinceFn,      \* history: time slept since fn was last called
    signalled,    \* history: signals sent so far
    rsigClosed,   \* the signal channel has been closed by its owner
    rchClosed,    \* the forwarder has closed ch
    rpanic,       \* a goroutine of RunLoop has hit a panic: the process is over
    \* ---- coordinator: GET /nodeinventory, statement by statement (SpecLP)
    invState,     \* the coordinator's StateContainer[*indexedInventory].current
    invWatchers,  \* the requests whose context is a key of its watchers map
    invSwaps,     \* number of Swap calls syncInventory made
    hpc,          \* per request: the position of the handler
    hAfter,       \* per request: q.Get("after")
    reqDone,      \* per request: r.Context() is cancelled
    timeoutCtx,   \* per request: the context made by context.WithTimeout
    watcher,      \* per request: the handler's watcher channel, or nil
    hstate,       \* per request: what state.Get() last returned
    written,      \* per request: the response written
    inventoryResponseLock,  \* the request that holds the mutex, or nil
    \* ---- coordinator: the API behind rpc.WithAuth (SpecAuth)
    cstate,       \* the coordinator's StateContainer[*indexedInventory].current
    areq,         \* the request being served and its position
    aout,         \* what WithAuth answered, and whether the handler was invoked
    nodeStore,    \* the keys of the nodeMetadataStore
    \* ---- rpc client: the TLS handshake of a connection (SpecTLS)
    dial,         \* the connection the client is making, and its handshake
    \* ---- coordinator: main, syncInventory and /registernode (SpecSync)
    remote,       \* the GitOps repository's HEAD: its gitSHA and its cluster.toml
    workdir,      \* the coordinator's clone ./repo after the last pull
    kstate,       \* the coordinator's StateContainer[*indexedInventory].current
    building,     \* syncInventory's inv, while it is being built
    kwatch,       \* the channel of a long poll's watcher (-1: none registered)
    nms,          \* the nodeMetadataStore: pairs of key and Fingerprint
    mainpc,       \* the coordinator's main
    spc,          \* the position of syncInventory
    sres,         \* what the last syncInventory call returned
    reg,          \* a /registernode request between WithAuth and store.Set
    regDuring,    \* history: a /registernode was in flight during this sync
    nmsBefore,    \* history: nms when this sync started
    \* ---- coordinator: GET /status (SpecStatus)
    stpc,         \* position of the GET /status handler
    stodo,        \* entries of store.List() not yet queried
    partial,      \* the handler's partial flag
    stbody,       \* resp.Containers, as (name, fingerprint) pairs
    stcode,       \* status written by the handler, 0 before
    qres,         \* what each agent's /ps query met
    \* ---- rpc.GenCertificate (SpecCert)
    certFile,     \* tls/cert.pem
    keyFile,      \* tls/cert-private-key.pem
    fingerprintFile, \* tls/cert-fingerprint.txt
    gpc,          \* position of GenCertificate
    certObj,      \* the certificate GenCertificate holds
    generated,    \* certificates genCert has made so far
    gret,         \* what the last call of GenCertificate returned
    gprev,        \* what the last successful call before it returned
    gsince,       \* what happened to the directory since that call
    \* ---- coordinator: readInventory's container files (SpecRead)
    rdpc,         \* position of readInventory's loop over cluster.Nodes
    rdNodes,      \* cluster.Nodes of the cluster.toml being read
    rdFiles,      \* what opening and decoding each container file gives
    rdI,          \* index of the next node of cluster.Nodes
    containerIndex, \* paths of the container files read so far
    rdInv,        \* inv.NodesByFingerprint being filled
    \* ---- agent: syncPodman with a container that cannot be removed (SpecWedge)
    wdpc,         \* position of the reconciler between and inside its passes
    wedged,       \* name of the container that podman rm cannot remove, or the empty string
    wContainers,  \* the containers the runtime holds
    wMounts,      \* the ids of the files under mounts/
    wObs,         \* psOutput of the pass in progress
    wGoal,        \* the inventory state.Get() returns to the passes
    \* ---- agent: syncInventory and inventory.toml (SpecInvFile)
    ivPc,         \* position of the agent's syncInventory
    ivState,      \* the inventory held by the agent's state container
    ivFile,       \* the content of inventory.toml
    ivResp,       \* the response client.Get returned
    ivInstalled   \* the inventories line 47's state.Swap has installed since the file was first written

coordVars   == <<coordIdx, coordUp, trusted>>
stateVars   == <<current, wch>>
diskVars    == <<file, mounts>>
loopVars    == <<ch, fwd, lpc>>
podmanVars  == <<snapGoal, snapObs>>
clientVars  == <<after, resp>>
historyVars == <<lastPass, outage>>
agentVars   == <<coordVars, stateVars, diskVars, loopVars, podmanVars, clientVars,
                 containers, budget, historyVars>>
\* the variables of the other specifications, which the agent leaves alone
scVars      == <<locked, scCurrent, watchers, wchan, wclosed, ctxDone, cpc, cval, cret,
                 todo, wpc, wret, dpc, swaps, hist, completed, owed, wake>>
rlVars      == <<rpc, rch, rsig, rfwd, rargs, lastRetry, fails, calls, sinceFn, signalled,
                 rsigClosed, rchClosed, rpanic>>
lpVars      == <<invState, invWatchers, invSwaps, hpc, hAfter, reqDone, timeoutCtx, watcher,
                 hstate, written, inventoryResponseLock>>
authVars    == <<cstate, areq, aout, nodeStore>>
tlsVars     == <<dial>>
syncVars    == <<remote, workdir, kstate, building, kwatch, nms, mainpc, spc, sres, reg, regDuring, nmsBefore>>
statusVars  == <<stpc, stodo, partial, stbody, stcode, qres>>
certVars    == <<certFile, keyFile, fingerprintFile, gpc, certObj, generated, gret, gprev, gsince>>
readVars    == <<rdpc, rdNodes, rdFiles, rdI, containerIndex, rdInv>>
wedgeVars   == <<wdpc, wedged, wContainers, wMounts, wObs, wGoal>>
diskInvVars == <<ivPc, ivState, ivFile, ivResp, ivInstalled>>
notAgent    == <<scVars, rlVars, lpVars, authVars, tlsVars, syncVars, statusVars, certVars, readVars, wedgeVars, diskInvVars>>
\* what the StateContainer specification leaves alone
notSC       == <<agentVars, rlVars, lpVars, authVars, tlsVars, syncVars, statusVars, certVars, readVars, wedgeVars, diskInvVars>>
\* what the RunLoop specification leaves alone
notRL       == <<agentVars, scVars, lpVars, authVars, tlsVars, syncVars, statusVars, certVars, readVars, wedgeVars, diskInvVars>>
\* what the long-poll specification leaves alone
notLP       == <<agentVars, scVars, rlVars, authVars, tlsVars, syncVars, statusVars, certVars, readVars, wedgeVars, diskInvVars>>
\* what the specification of the API leaves alone
notAuth     == <<agentVars, scVars, rlVars, lpVars, tlsVars, syncVars, statusVars, certVars, readVars, wedgeVars, diskInvVars>>
\* what the specification of the rpc client leaves alone
notTLS      == <<agentVars, scVars, rlVars, lpVars, authVars, syncVars, statusVars, certVars, readVars, wedgeVars, diskInvVars>>
\* what the specification of the coordinator's sync leaves alone
notSync     == <<agentVars, scVars, rlVars, lpVars, authVars, tlsVars, statusVars, certVars, readVars, wedgeVars, diskInvVars>>
\* what the specification of GET /status leaves alone
notStatus   == <<agentVars, scVars, rlVars, lpVars, authVars, tlsVars, syncVars, certVars, readVars, wedgeVars, diskInvVars>>
\* what the specification of GenCertificate leaves alone
notCert     == <<agentVars, scVars, rlVars, lpVars, authVars, tlsVars, syncVars, statusVars, readVars, wedgeVars, diskInvVars>>
\* what the specification of readInventory's loop leaves alone
notRead     == <<agentVars, scVars, rlVars, lpVars, authVars, tlsVars, syncVars, statusVars, certVars, wedgeVars, diskInvVars>>
\* what the specification of the wedged removal leaves alone
notWedge    == <<agentVars, scVars, rlVars, lpVars, authVars, tlsVars, syncVars, statusVars, certVars, readVars, diskInvVars>>
\* what the specification of inventory.toml leaves alone
notDiskInv  == <<agentVars, scVars, rlVars, lpVars, authVars, tlsVars, syncVars, statusVars, certVars, readVars, wedgeVars>>
vars        == <<agentVars, notAgent>>

----------------------------------------------------------------------------
(* Bounds of the model *)
MaxPublish  == 1    \* inventories the coordinator publishes after the first
MaxFaults   == 2    \* faults of the environment: a container that exits on its own, a
                    \* runtime or file-system operation that fails, a coordinator
                    \* outage, a restart of the agent process
MaxFileIds  == 2    \* distinct ids uuid.NewRandom can return
MaxSwaps    == 2    \* Swap calls on the StateContainer of SpecSC
MaxFails    == 7    \* consecutive false returns of fn in one attempt of SpecRL
MaxSignals  == 2    \* signals sent to the RunLoop of SpecRL
MaxInvSwaps == 3    \* Swap calls of the coordinator's syncInventory in SpecLP
MaxChain    == 3    \* certificates a server presents in one handshake of SpecTLS
MaxPushes   == 2    \* commits pushed to the GitOps repository in SpecSync
MaxCerts    == 3    \* certificates genCert makes in SpecCert
MaxNodes    == 2    \* [[node]] entries of a cluster.toml in SpecRead

Nil == "nil"

----------------------------------------------------------------------------
(* Data model *)

\* api.ContainerSpec: name (file stem), hash (md5 of the file), the number of
\* [[secret]] and [[file]] entries, and flags["restart"] ("" when the flag is
\* not set).
ContainerSpec(n, h, s, f, r) ==
    [name |-> n, hash |-> h, secrets |-> s, files |-> f, restart |-> r]

Web1 == ContainerSpec("web", "h1", 1, 1, "always")
Web2 == ContainerSpec("web", "h2", 0, 0, "no")
Db   == ContainerSpec("db",  "h3", 0, 1, "")

\* api.NodeInventory
NodeInventory(sha, cs) == [gitSHA |-> sha, containers |-> cs]
EmptyInventory == NodeInventory(0, <<>>)
\* the nil *NodeInventory
NilInventory == [nil |-> TRUE]

\* The inventory of this node at the i-th commit of the GitOps repository
\* (the gitSHA is modelled by the commit's index, "" by 0).
InvAt(i) ==
    NodeInventory(i, CASE i % 3 = 1 -> <<Web1>>
                       [] i % 3 = 2 -> <<Web2, Db>>
                       [] OTHER     -> <<Db>>)

SeqRange(s) == {s[i] : i \in DOMAIN s}

\* toml encoding of a NodeInventory, and the body of an error response
TomlEncode(inv) == [kind |-> "toml", gitSHA |-> inv.gitSHA, container |-> inv.containers]
EmptyBody == [kind |-> "empty"]
\* inventory.toml does not exist
NoFile == [kind |-> "nofile"]
\* bytes that are not a toml document
Garbled == [kind |-> "garbled"]

\* toml.Decode into a fresh NodeInventory: <<inventory, error>>
TomlDecode(body) ==
    CASE body = NoFile    -> <<EmptyInventory, TRUE>>     \* DecodeFile: no such file
      [] body = EmptyBody -> <<EmptyInventory, FALSE>>    \* an empty document
      [] body = Garbled   -> <<EmptyInventory, TRUE>>     \* the parser's error
      [] OTHER            -> <<NodeInventory(body.gitSHA, body.container), FALSE>>

----------------------------------------------------------------------------
(* StateContainer, as the agent uses it (one watcher: the reconciler) *)

\* faulty variant: the wake is never sent
BumpNever(c) == c

\* bumpUnlocked on a channel of capacity 1: select { case ch <- x: default: }
Bump(c) == IF c < 1 THEN c + 1 ELSE c

----------------------------------------------------------------------------
(* RunLoop *)

Loops == {"podman", "inventory"}

\* The signal channel and the resync period (minutes) main() passes to RunLoop.
Signal(l) == IF l = "podman" THEN "watch" ELSE Nil
Resync(l) == IF l = "podman" THEN 30 ELSE 0

\* the first statement of fn
FnStart(l) == IF l = "podman" THEN "get" ELSE "seed"

\* faulty variant: ch made with more than one slot
ChanUnbounded(len) == TRUE

\* ch := make(chan struct{}, 1): a send on ch proceeds when the slot is free
ChanHasRoom(len) == len < 1

\* for range ch { attempt() ... }: the main loop takes the next queued attempt
LoopRecv(l) ==
    /\ lpc[l] = "recv"
    /\ ch[l] > 0
    /\ ch' = [ch EXCEPT ![l] = @ - 1]
    /\ lpc' = [lpc EXCEPT ![l] = FnStart(l)]
    /\ UNCHANGED <<coordVars, stateVars, diskVars, fwd, podmanVars, clientVars, containers,
                   budget, historyVars, notAgent>>

\* fn returned false: time.Sleep(Jitter(lastRetry)) is over, fn runs again
LoopRetry(l) ==
    /\ lpc[l] = "backoff"
    /\ lpc' = [lpc EXCEPT ![l] = FnStart(l)]
    /\ UNCHANGED <<coordVars, stateVars, diskVars, ch, fwd, podmanVars, clientVars, containers,
                   budget, historyVars, notAgent>>

\* fn returned true: the cooldown sleep is over
LoopCooldown(l) ==
    /\ lpc[l] = "cooldown"
    /\ lpc' = [lpc EXCEPT ![l] = "recv"]
    /\ UNCHANGED <<coordVars, stateVars, diskVars, ch, fwd, podmanVars, clientVars, containers,
                   budget, historyVars, notAgent>>

\* go func() { for range signal { ch <- struct{}{} } }: receive one signal.
\* A nil signal channel never delivers.
ForwardRecv(l) ==
    /\ Signal(l) # Nil
    /\ fwd[l] = "recv"
    /\ wch = 1
    /\ wch' = 0
    /\ fwd' = [fwd EXCEPT ![l] = "send"]
    /\ UNCHANGED <<coordVars, current, diskVars, ch, lpc, podmanVars, clientVars, containers,
                   budget, historyVars, notAgent>>

\* ... and the blocking send into ch
ForwardSend(l) ==
    /\ fwd[l] = "send"
    /\ ChanHasRoom(ch[l])
    /\ ch' = [ch EXCEPT ![l] = @ + 1]
    /\ fwd' = [fwd EXCEPT ![l] = "recv"]
    /\ UNCHANGED <<coordVars, stateVars, diskVars, lpc, podmanVars, clientVars, containers,
                   budget, historyVars, notAgent>>

\* the resync ticker: select { case ch <- struct{}{}: default: }
Tick(l) ==
    /\ Resync(l) > 0
    /\ ChanHasRoom(ch[l])
    /\ ch' = [ch EXCEPT ![l] = @ + 1]
    /\ UNCHANGED <<coordVars, stateVars, diskVars, fwd, lpc, podmanVars, clientVars, containers,
                   budget, historyVars, notAgent>>

----------------------------------------------------------------------------
(* The coordinator's answer to GET /nodeinventory?after=<sha>, as the agent's
   HTTP client receives it *)

TransportError == [status |-> 0, body |-> EmptyBody]
NoResponse == [status |-> -1, body |-> EmptyBody]

\* WithAuth answers 403 to an untrusted fingerprint; the handler answers with the
\* encoded inventory when after is empty or differs from the current gitSHA, and
\* with 400 once the request's context is done (cancelled, or the 30 minute
\* deadline of the long poll).
NodeInventoryResponse(up, trust, sha, aft) ==
    IF ~up THEN TransportError
    ELSE IF ~trust THEN [status |-> 403, body |-> EmptyBody]
    ELSE IF aft = 0 \/ sha # aft THEN [status |-> 200, body |-> TomlEncode(InvAt(sha))]
    ELSE [status |-> 400, body |-> EmptyBody]

\* faulty variant: the error of client.Get is dropped
ClientGetNeverFails(r) == FALSE

\* client.Get is http.Client.Get (promoted through the embedded client): it
\* returns an error only when no response was received.
ClientGetFails(r) == r.status = 0

----------------------------------------------------------------------------
(* syncInventory (agent) *)

\* current := state.Get(); if current == nil { decode inventory.toml; Swap },
\* then the request is sent with after=current.GitSHA
InvSeed ==
    /\ lpc["inventory"] = "seed"
    /\ IF current = NilInventory
       THEN /\ current' = TomlDecode(file)[1]
            /\ wch' = Bump(wch)
       ELSE UNCHANGED <<current, wch>>
    /\ after' = current'.gitSHA
    /\ lpc' = [lpc EXCEPT !["inventory"] = "wait"]
    /\ UNCHANGED <<coordVars, diskVars, ch, fwd, podmanVars, resp, containers, budget,
                   historyVars, notAgent>>

\* client.Get returns: with an error (back to RunLoop, which retries), or with a
\* response of any status
InvResponse ==
    /\ lpc["inventory"] = "wait"
    /\ LET r == NodeInventoryResponse(coordUp, trusted, coordIdx, after)
       IN  IF ClientGetFails(r)
           THEN /\ lpc' = [lpc EXCEPT !["inventory"] = "backoff"]
                /\ resp' = NoResponse
           ELSE /\ lpc' = [lpc EXCEPT !["inventory"] = "write"]
                /\ resp' = r
    /\ after' = 0
    /\ UNCHANGED <<coordVars, stateVars, diskVars, ch, fwd, podmanVars, containers, budget,
                   historyVars, notAgent>>

\* body := io.ReadAll(resp.Body); os.WriteFile(file, body, 0644)
InvWrite ==
    /\ lpc["inventory"] = "write"
    /\ file' = resp.body
    /\ lpc' = [lpc EXCEPT !["inventory"] = "decode"]
    /\ UNCHANGED <<coordVars, stateVars, mounts, ch, fwd, podmanVars, clientVars, containers,
                   budget, historyVars, notAgent>>

\* toml.Decode(string(body), inv); state.Swap(inv); return nil
InvDecode ==
    /\ lpc["inventory"] = "decode"
    /\ LET d == TomlDecode(resp.body)
       IN  IF d[2]
           THEN /\ lpc' = [lpc EXCEPT !["inventory"] = "backoff"]
                /\ UNCHANGED <<current, wch>>
           ELSE /\ current' = d[1]
                /\ wch' = Bump(wch)
                /\ lpc' = [lpc EXCEPT !["inventory"] = "cooldown"]
    /\ resp' = NoResponse
    /\ UNCHANGED <<coordVars, diskVars, ch, fwd, podmanVars, after, containers, budget,
                   historyVars, notAgent>>

----------------------------------------------------------------------------
(* syncPodman (agent): one reconciler pass *)

\* psOutput, with the labels recomposeHash, recomposeMounts and kickstart
Container(n, h, e, m, k) ==
    [name |-> n, hash |-> h, exited |-> e, mountIds |-> m, kickstart |-> k]

FileIds == 1 .. MaxFileIds

\* what a completed pass did: the runtime mutations it invoked (op, name, ok), the
\* number of ReEnter calls, the mount files it deleted, and whether it returned an error
Pass(m, r, d, e) == [muts |-> m, reenter |-> r, deleted |-> d, err |-> e]
Mutation(op, n, ok) == [op |-> op, name |-> n, ok |-> ok]

\* goalIndex[container.Hash] = container, in inventory order (the last one wins)
GoalIndex(inv) ==
    LET cs == inv.containers
    IN  [h \in {cs[i].hash : i \in DOMAIN cs} |->
            cs[CHOOSE i \in DOMAIN cs :
                  /\ cs[i].hash = h
                  /\ \A j \in DOMAIN cs : cs[j].hash = h => j <= i]]

\* existingIndex[hash] = c, one container per recomposeHash label
ExistingIndex(obs) ==
    [h \in {c.hash : c \in obs} |-> CHOOSE c \in obs : c.hash = h]

Range(f) == {f[x] : x \in DOMAIN f}

\* inUseFiles: the ids of the recomposeMounts labels, split on commas
InUseFiles(obs) == UNION {SeqRange(c.mountIds) : c \in obs}

\* if hash != "" && goalIndex[hash] != nil { continue }
\* faulty variant: "||" for "&&" in the continue condition of the orphan loop
IsOrphanEither(c, goalIndex) == ~(c.hash # "" \/ c.hash \in DOMAIN goalIndex)

IsOrphan(c, goalIndex) == ~(c.hash # "" /\ c.hash \in DOMAIN goalIndex)

\* faulty variant: the pass goes on to the goal loop without the orphan loop
OrphansNone(obs, inv) == {}

Orphans(obs, inv) == {c \in Range(ExistingIndex(obs)) : IsOrphan(c, GoalIndex(inv))}

\* faulty variant: the clean-up loop without its inUseFiles test
CleanedMountsNone(files, obs) == {}

\* the files left under mounts/ by the clean-up loop
CleanedMounts(files, obs) == {f \in files : f \in InUseFiles(obs)}

\* a goal container with no observed counterpart
IsMissing(s, obs) == s.hash \notin DOMAIN ExistingIndex(obs)

\* faulty variant: the kickstart branch without its e.Exited test
NeedsKickstartRunning(s, obs) ==
    /\ s.hash \in DOMAIN ExistingIndex(obs)
    /\ ExistingIndex(obs)[s.hash].kickstart # "false"

\* faulty variant: every observed counterpart is kickstarted
NeedsKickstartAny(s, obs) == s.hash \in DOMAIN ExistingIndex(obs)

\* an observed counterpart that has exited and may be kickstarted
NeedsKickstart(s, obs) ==
    /\ s.hash \in DOMAIN ExistingIndex(obs)
    /\ LET e == ExistingIndex(obs)[s.hash]
       IN  e.exited /\ e.kickstart # "false"

\* faulty variant: ReEnter called before the error of the mutation is tested
ReEnterAlways(ok) == TRUE

\* faulty variant: the pass returns after its mutation without ReEnter
ReEnterNever(ok) == FALSE

\* state.ReEnter() follows a mutation exactly when it returned no error
ReEnterAfter(ok) == ok

\* the kickstart label getPodmanFlags gives the container it creates: its
\* loop over c.Spec.Flags turns every flag into an argument --key=value and
\* adds no label, whatever flags["restart"] is
KickstartLabel(s) == ""

\* uuid.NewRandom for each [[file]]: n fresh ids. Ids are interchangeable, so the
\* n smallest ids that name no file stand for any n fresh ids.
RECURSIVE FreshIds(_, _)
FreshIds(used, n) ==
    IF n = 0 THEN <<>>
    ELSE LET id == CHOOSE i \in FileIds \ used : \A j \in FileIds \ used : i <= j
         IN  <<id>> \o FreshIds(used \cup {id}, n - 1)

SpendFault(fail) == IF fail THEN [budget EXCEPT !.faults = @ - 1] ELSE budget

\* the locals of syncPodman go out of scope
ReturnFromPass == snapGoal' = NilInventory /\ snapObs' = {}

\* current := state.Get(); if current == nil { return nil }
SyncPodmanNil ==
    /\ lpc["podman"] = "get"
    /\ current = NilInventory
    /\ lastPass' = Pass(<<>>, 0, {}, FALSE)
    /\ lpc' = [lpc EXCEPT !["podman"] = "cooldown"]
    /\ UNCHANGED <<coordVars, stateVars, diskVars, ch, fwd, podmanVars, clientVars, containers,
                   budget, outage, notAgent>>

\* existing, err := podmanPs()
SyncPodmanPs(fail) ==
    /\ lpc["podman"] = "get"
    /\ current # NilInventory
    /\ fail => budget.faults > 0
    /\ budget' = SpendFault(fail)
    /\ IF fail
       THEN /\ lastPass' = Pass(<<>>, 0, {}, TRUE)
            /\ lpc' = [lpc EXCEPT !["podman"] = "backoff"]
            /\ ReturnFromPass
       ELSE /\ snapGoal' = current
            /\ snapObs' = containers
            /\ lpc' = [lpc EXCEPT !["podman"] = "act"]
            /\ UNCHANGED lastPass
    /\ UNCHANGED <<coordVars, stateVars, diskVars, ch, fwd, clientVars, containers, outage,
                   notAgent>>

\* the loop over existingIndex: the first orphan met (map order is random) is
\* removed with podman rm --force, and the pass returns
SyncPodmanRemove(c, fail) ==
    /\ lpc["podman"] = "act"
    /\ c \in Orphans(snapObs, snapGoal)
    /\ fail => budget.faults > 0
    /\ budget' = SpendFault(fail)
    /\ LET ok == ~fail
       IN  /\ containers' = IF ok THEN {d \in containers : d.name # c.name} ELSE containers
           /\ wch' = IF ReEnterAfter(ok) THEN Bump(wch) ELSE wch
           /\ lastPass' = Pass(<<Mutation("rm", c.name, ok)>>,
                               IF ReEnterAfter(ok) THEN 1 ELSE 0, {}, ~ok)
           /\ lpc' = [lpc EXCEPT !["podman"] = IF ok THEN "cooldown" ELSE "backoff"]
    /\ ReturnFromPass
    /\ UNCHANGED <<coordVars, current, diskVars, ch, fwd, clientVars, outage,
                   notAgent>>

\* os.ReadDir("mounts") or os.Remove fails: the pass returns the error
SyncPodmanMountsFail ==
    /\ lpc["podman"] = "act"
    /\ Orphans(snapObs, snapGoal) = {}
    /\ budget.faults > 0
    /\ budget' = SpendFault(TRUE)
    /\ lastPass' = Pass(<<>>, 0, {}, TRUE)
    /\ lpc' = [lpc EXCEPT !["podman"] = "backoff"]
    /\ ReturnFromPass
    /\ UNCHANGED <<coordVars, stateVars, diskVars, ch, fwd, clientVars, containers,
                   outage, notAgent>>

\* the loop over goalIndex met a container that has exited and may be
\* kickstarted: podman start <c.Name>, and the pass returns
SyncPodmanKickstart(s, fail) ==
    /\ lpc["podman"] = "act"
    /\ Orphans(snapObs, snapGoal) = {}
    /\ s \in Range(GoalIndex(snapGoal))
    /\ NeedsKickstart(s, snapObs)
    /\ fail => budget.faults > 0
    /\ budget' = SpendFault(fail)
    /\ mounts' = CleanedMounts(mounts, snapObs)
    /\ LET ok == ~fail /\ \E d \in containers : d.name = s.name
       IN  /\ containers' = IF ok
                            THEN {IF d.name = s.name THEN [d EXCEPT !.exited = FALSE] ELSE d :
                                     d \in containers}
                            ELSE containers
           /\ wch' = IF ReEnterAfter(ok) THEN Bump(wch) ELSE wch
           /\ lastPass' = Pass(<<Mutation("start", s.name, ok)>>,
                               IF ReEnterAfter(ok) THEN 1 ELSE 0,
                               mounts \ mounts', ~ok)
           /\ lpc' = [lpc EXCEPT !["podman"] = IF ok THEN "cooldown" ELSE "backoff"]
    /\ ReturnFromPass
    /\ UNCHANGED <<coordVars, current, file, ch, fwd, clientVars, outage, notAgent>>

\* faulty variant: the error of client.POST is dropped
DecryptAlways(s) == TRUE

\* POST /decrypt for every secret of the spec: needs a reachable coordinator that
\* trusts this node
DecryptOk(s) == s.secrets = 0 \/ (coordUp /\ trusted)

\* the loop over goalIndex met a container with no observed counterpart:
\* podmanStart (decrypt the secrets, write the mount files, podman run), and the
\* pass returns
SyncPodmanStart(s, fail) ==
    /\ lpc["podman"] = "act"
    /\ Orphans(snapObs, snapGoal) = {}
    /\ s \in Range(GoalIndex(snapGoal))
    /\ IsMissing(s, snapObs)
    /\ fail => budget.faults > 0 /\ DecryptOk(s)
    /\ budget' = SpendFault(fail)
    /\ Cardinality(FileIds \ CleanedMounts(mounts, snapObs)) >= s.files
    /\ IF ~DecryptOk(s)
       THEN /\ mounts' = CleanedMounts(mounts, snapObs)
            /\ lastPass' = Pass(<<>>, 0, mounts \ CleanedMounts(mounts, snapObs), TRUE)
            /\ lpc' = [lpc EXCEPT !["podman"] = "backoff"]
            /\ UNCHANGED <<containers, wch>>
       ELSE LET ok  == ~fail /\ ~\E d \in containers : d.name = s.name
                ids == FreshIds(CleanedMounts(mounts, snapObs), s.files)
            IN  /\ mounts' = CleanedMounts(mounts, snapObs) \cup SeqRange(ids)
                /\ containers' = IF ok
                                 THEN containers \cup {Container(s.name, s.hash, FALSE, ids,
                                                              KickstartLabel(s))}
                                 ELSE containers
                /\ wch' = IF ReEnterAfter(ok) THEN Bump(wch) ELSE wch
                /\ lastPass' = Pass(<<Mutation("run", s.name, ok)>>,
                                    IF ReEnterAfter(ok) THEN 1 ELSE 0,
                                    mounts \ CleanedMounts(mounts, snapObs), ~ok)
                /\ lpc' = [lpc EXCEPT !["podman"] = IF ok THEN "cooldown" ELSE "backoff"]
    /\ ReturnFromPass
    /\ UNCHANGED <<coordVars, current, file, ch, fwd, clientVars, outage, notAgent>>

\* neither loop found anything to do: return nil
SyncPodmanConverged ==
    /\ lpc["podman"] = "act"
    /\ Orphans(snapObs, snapGoal) = {}
    /\ \A s \in Range(GoalIndex(snapGoal)) : ~IsMissing(s, snapObs) /\ ~NeedsKickstart(s, snapObs)
    /\ mounts' = CleanedMounts(mounts, snapObs)
    /\ lastPass' = Pass(<<>>, 0, mounts \ mounts', FALSE)
    /\ lpc' = [lpc EXCEPT !["podman"] = "cooldown"]
    /\ ReturnFromPass
    /\ UNCHANGED <<coordVars, stateVars, file, ch, fwd, clientVars, containers,
                   budget, outage, notAgent>>

----------------------------------------------------------------------------
(* The environment of the agent *)

\* the coordinator swaps in the inventory of the next commit, which may or may
\* not declare this node
Publish(t) ==
    /\ budget.publish > 0
    /\ budget' = [budget EXCEPT !.publish = @ - 1]
    /\ coordIdx' = coordIdx + 1
    /\ trusted' = t
    /\ UNCHANGED <<coordUp, stateVars, diskVars, loopVars, podmanVars, clientVars, containers,
                   historyVars, notAgent>>

CoordinatorDown ==
    /\ coordUp
    /\ budget.faults > 0
    /\ budget' = SpendFault(TRUE)
    /\ coordUp' = FALSE
    /\ UNCHANGED <<coordIdx, trusted, stateVars, diskVars, loopVars, podmanVars, clientVars,
                   containers, historyVars, notAgent>>

NoOutage == [active |-> FALSE, inv |-> EmptyInventory, kept |-> {}]

CoordinatorUp ==
    /\ ~coordUp
    /\ coordUp' = TRUE
    /\ outage' = NoOutage
    /\ UNCHANGED <<coordIdx, trusted, stateVars, diskVars, loopVars, podmanVars, clientVars,
                   containers, budget, lastPass, notAgent>>

\* a running container exits on its own
ContainerExit(c) ==
    /\ c \in containers
    /\ ~c.exited
    /\ budget.faults > 0
    /\ budget' = SpendFault(TRUE)
    /\ containers' = (containers \ {c}) \cup {[c EXCEPT !.exited = TRUE]}
    /\ UNCHANGED <<coordVars, stateVars, diskVars, loopVars, podmanVars, clientVars,
                   historyVars, notAgent>>

\* The agent process is restarted: main() runs again on the same directory and
\* the same runtime. The state container is empty, its watcher is registered
\* before the loops start, and each RunLoop queues its initial attempt.
AgentRestart ==
    /\ budget.faults > 0
    /\ budget' = SpendFault(TRUE)
    /\ current' = NilInventory
    /\ wch' = 0
    /\ ch' = [l \in Loops |-> 1]
    /\ fwd' = [l \in Loops |-> "recv"]
    /\ lpc' = [l \in Loops |-> "recv"]
    /\ snapGoal' = NilInventory
    /\ snapObs' = {}
    /\ after' = 0
    /\ resp' = NoResponse
    /\ lastPass' = Pass(<<>>, 0, {}, FALSE)
    /\ outage' = IF coordUp THEN NoOutage
                 ELSE LET inv == TomlDecode(file)[1]
                      IN  [active |-> TRUE, inv |-> inv,
                           kept |-> {c \in containers : c.hash \in DOMAIN GoalIndex(inv)}]
    /\ UNCHANGED <<coordVars, diskVars, containers, notAgent>>

----------------------------------------------------------------------------
(* StateContainer[int], one step per statement.  Callers call Get, Swap and
   ReEnter; each ctx belongs to a goroutine that calls Watch(ctx), ranges over
   the channel and calls Get after each wake; contexts are cancelled at any
   time. *)

Procs == {"p1", "p2"}
Ctxs == {"c1", "c2"}
\* c1 is the context of a request, c2 is context.Background()
Cancellable == {"c1"}

Idle == [op |-> "none", at |-> "idle"]
At(o, a) == [op |-> o, at |-> a]

Caller(p) == <<"caller", p>>
Watcher(c) == <<"watcher", c>>
Canceller(c) == <<"cancel", c>>

\* faulty variant: Lock() that excludes nobody
LockAlwaysFree(holders) == TRUE

\* sync.Mutex: Lock() returns when nobody holds the mutex
LockFree(holders) == holders = {}

\* faulty variant: a channel made with a wake in it
MakeChanSignalled(capacity) == capacity

\* make(chan struct{}, 1): the length of a new channel
MakeChan(capacity) == 0

\* faulty variant: a plain send, ch <- struct{}{}
CanSendBlocking(len) == len < 1

\* select { case ch <- struct{}{}: default: } always proceeds
CanSend(len) == TRUE

InitSC ==
    /\ locked = {}
    /\ scCurrent = 0
    /\ watchers = {}
    /\ wchan = [c \in Ctxs |-> 0]
    /\ wclosed = [c \in Ctxs |-> FALSE]
    /\ ctxDone = {}
    /\ cpc = [p \in Procs |-> Idle]
    /\ cval = [p \in Procs |-> 0]
    /\ cret = [p \in Procs |-> 0]
    /\ todo = [p \in Procs |-> {}]
    /\ wpc = [c \in Ctxs |-> "new"]
    /\ wret = [c \in Ctxs |-> 0]
    /\ dpc = [c \in Ctxs |-> "none"]
    /\ swaps = 0
    /\ hist = <<>>
    /\ completed = 0
    /\ owed = {}
    /\ wake = [c \in Ctxs |-> 0]

\* a caller calls Get(), Swap(val) or ReEnter(); val is new with each call
Call(p, o) ==
    /\ cpc[p] = Idle
    /\ cpc' = [cpc EXCEPT ![p] = At(o, "lock")]
    /\ IF o = "Swap"
       THEN /\ swaps < MaxSwaps
            /\ swaps' = swaps + 1
            /\ cval' = [cval EXCEPT ![p] = swaps + 1]
       ELSE UNCHANGED <<swaps, cval>>
    /\ UNCHANGED <<notSC, locked, scCurrent, watchers, wchan, wclosed, ctxDone, cret, todo,
                   wpc, wret, dpc, hist, completed, owed, wake>>

\* s.lock.Lock()
CallLock(p) ==
    /\ cpc[p].at = "lock"
    /\ LockFree(locked)
    /\ locked' = locked \cup {Caller(p)}
    /\ cpc' = [cpc EXCEPT ![p].at =
                 CASE cpc[p].op = "Get" -> "read"
                   [] cpc[p].op = "Swap" -> "write"
                   [] OTHER -> "bump"]
    /\ todo' = [todo EXCEPT ![p] = IF cpc[p].op = "ReEnter" THEN watchers ELSE {}]
    /\ UNCHANGED <<notSC, scCurrent, watchers, wchan, wclosed, ctxDone, cval, cret, wpc,
                   wret, dpc, swaps, hist, completed, owed, wake>>

\* return s.current: the result is evaluated before the deferred Unlock
GetRead(p) ==
    /\ cpc[p] = At("Get", "read")
    /\ cret' = [cret EXCEPT ![p] = scCurrent]
    /\ cpc' = [cpc EXCEPT ![p].at = "unlock"]
    /\ UNCHANGED <<notSC, locked, scCurrent, watchers, wchan, wclosed, ctxDone, cval, todo,
                   wpc, wret, dpc, swaps, hist, completed, owed, wake>>

\* s.current = val, then bumpUnlocked ranges over s.watchers
SwapWrite(p) ==
    /\ cpc[p] = At("Swap", "write")
    /\ scCurrent' = cval[p]
    /\ hist' = Append(hist, cval[p])
    /\ owed' = owed \cup watchers
    /\ todo' = [todo EXCEPT ![p] = watchers]
    /\ cpc' = [cpc EXCEPT ![p].at = "bump"]
    /\ UNCHANGED <<notSC, locked, watchers, wchan, wclosed, ctxDone, cval, cret, wpc, wret,
                   dpc, swaps, completed, wake>>

\* one iteration of bumpUnlocked: the non-blocking send to a watcher's channel
BumpOne(p, c) ==
    /\ cpc[p].at = "bump"
    /\ c \in todo[p]
    /\ CanSend(wchan[c])
    /\ wchan' = [wchan EXCEPT ![c] = Bump(wchan[c])]
    /\ todo' = [todo EXCEPT ![p] = @ \ {c}]
    /\ UNCHANGED <<notSC, locked, scCurrent, watchers, wclosed, ctxDone, cpc, cval, cret,
                   wpc, wret, dpc, swaps, hist, completed, owed, wake>>

\* the range is over: bumpUnlocked returns and the deferred Unlock runs
BumpDone(p) ==
    /\ cpc[p].at = "bump"
    /\ todo[p] = {}
    /\ cpc' = [cpc EXCEPT ![p].at = "unlock"]
    /\ UNCHANGED <<notSC, locked, scCurrent, watchers, wchan, wclosed, ctxDone, cval, cret,
                   todo, wpc, wret, dpc, swaps, hist, completed, owed, wake>>

\* the deferred s.lock.Unlock(), and the call returns
CallUnlock(p) ==
    /\ cpc[p].at = "unlock"
    /\ locked' = locked \ {Caller(p)}
    /\ completed' = IF cpc[p].op = "Swap" THEN cval[p] ELSE completed
    /\ cpc' = [cpc EXCEPT ![p] = Idle]
    /\ cval' = [cval EXCEPT ![p] = 0]
    /\ cret' = [cret EXCEPT ![p] = 0]
    /\ UNCHANGED <<notSC, scCurrent, watchers, wchan, wclosed, ctxDone, todo,
                   wpc, wret, dpc, swaps, hist, owed, wake>>

\* Watch(ctx): s.lock.Lock()
WatchLock(c) ==
    /\ wpc[c] = "new"
    /\ LockFree(locked)
    /\ locked' = locked \cup {Watcher(c)}
    /\ wpc' = [wpc EXCEPT ![c] = "register"]
    /\ UNCHANGED <<notSC, scCurrent, watchers, wchan, wclosed, ctxDone, cpc, cval, cret,
                   todo, wret, dpc, swaps, hist, completed, owed, wake>>

\* ch := make(chan struct{}, 1); go func() {...}(); s.watchers[ctx] = ch
WatchRegister(c) ==
    /\ wpc[c] = "register"
    /\ wchan' = [wchan EXCEPT ![c] = MakeChan(1)]
    /\ dpc' = [dpc EXCEPT ![c] = "wait"]
    /\ watchers' = watchers \cup {c}
    /\ wpc' = [wpc EXCEPT ![c] = "unlock"]
    /\ UNCHANGED <<notSC, locked, scCurrent, wclosed, ctxDone, cpc, cval, cret, todo, wret,
                   swaps, hist, completed, owed, wake>>

\* the deferred Unlock of Watch or of the watcher's Get
WatcherUnlock(c) ==
    /\ wpc[c] = "unlock"
    /\ locked' = locked \ {Watcher(c)}
    /\ wpc' = [wpc EXCEPT ![c] = "recv"]
    /\ wret' = [wret EXCEPT ![c] = 0]
    /\ wake' = [wake EXCEPT ![c] = 0]
    /\ UNCHANGED <<notSC, scCurrent, watchers, wchan, wclosed, ctxDone, cpc, cval, cret,
                   todo, dpc, swaps, hist, completed, owed>>

\* for range ch: a wake is received; a closed and empty channel ends the range
WatcherRecv(c) ==
    /\ wpc[c] = "recv"
    /\ \/ /\ wchan[c] > 0
          /\ wchan' = [wchan EXCEPT ![c] = @ - 1]
          /\ wake' = [wake EXCEPT ![c] = Len(hist)]
          /\ owed' = owed \ {c}
          /\ wpc' = [wpc EXCEPT ![c] = "get"]
       \/ /\ wchan[c] = 0
          /\ wclosed[c]
          /\ wpc' = [wpc EXCEPT ![c] = "done"]
          /\ UNCHANGED <<wchan, wake, owed>>
    /\ UNCHANGED <<notSC, locked, scCurrent, watchers, wclosed, ctxDone, cpc, cval, cret,
                   todo, wret, dpc, swaps, hist, completed>>

\* the watcher's s.Get(): Lock
WatcherGetLock(c) ==
    /\ wpc[c] = "get"
    /\ LockFree(locked)
    /\ locked' = locked \cup {Watcher(c)}
    /\ wpc' = [wpc EXCEPT ![c] = "read"]
    /\ UNCHANGED <<notSC, scCurrent, watchers, wchan, wclosed, ctxDone, cpc, cval, cret,
                   todo, wret, dpc, swaps, hist, completed, owed, wake>>

\* the watcher's s.Get(): return s.current
WatcherGetRead(c) ==
    /\ wpc[c] = "read"
    /\ wret' = [wret EXCEPT ![c] = scCurrent]
    /\ wpc' = [wpc EXCEPT ![c] = "unlock"]
    /\ UNCHANGED <<notSC, locked, scCurrent, watchers, wchan, wclosed, ctxDone, cpc, cval,
                   cret, todo, dpc, swaps, hist, completed, owed, wake>>

\* the owner of ctx cancels it
CtxCancel(c) ==
    /\ c \in Cancellable
    /\ c \notin ctxDone
    /\ ctxDone' = ctxDone \cup {c}
    /\ UNCHANGED <<notSC, locked, scCurrent, watchers, wchan, wclosed, cpc, cval, cret, todo,
                   wpc, wret, dpc, swaps, hist, completed, owed, wake>>

\* the goroutine of Watch: <-ctx.Done() returns
CancelWake(c) ==
    /\ dpc[c] = "wait"
    /\ c \in ctxDone
    /\ dpc' = [dpc EXCEPT ![c] = "lock"]
    /\ UNCHANGED <<notSC, locked, scCurrent, watchers, wchan, wclosed, ctxDone, cpc, cval,
                   cret, todo, wpc, wret, swaps, hist, completed, owed, wake>>

\* ... s.lock.Lock()
CancelLock(c) ==
    /\ dpc[c] = "lock"
    /\ LockFree(locked)
    /\ locked' = locked \cup {Canceller(c)}
    /\ dpc' = [dpc EXCEPT ![c] = "delete"]
    /\ UNCHANGED <<notSC, scCurrent, watchers, wchan, wclosed, ctxDone, cpc, cval, cret,
                   todo, wpc, wret, swaps, hist, completed, owed, wake>>

\* faulty variant: the channel is closed but stays in s.watchers
DeleteNothing(ws, c) == ws

\* delete(s.watchers, ctx)
DeleteWatcher(ws, c) == ws \ {c}

\* ... delete(s.watchers, ctx); close(ch)
CancelDelete(c) ==
    /\ dpc[c] = "delete"
    /\ watchers' = DeleteWatcher(watchers, c)
    /\ wclosed' = [wclosed EXCEPT ![c] = TRUE]
    /\ dpc' = [dpc EXCEPT ![c] = "unlock"]
    /\ UNCHANGED <<notSC, locked, scCurrent, wchan, ctxDone, cpc, cval, cret, todo, wpc,
                   wret, swaps, hist, completed, owed, wake>>

\* ... the deferred Unlock
CancelUnlock(c) ==
    /\ dpc[c] = "unlock"
    /\ locked' = locked \ {Canceller(c)}
    /\ dpc' = [dpc EXCEPT ![c] = "done"]
    /\ UNCHANGED <<notSC, scCurrent, watchers, wchan, wclosed, ctxDone, cpc, cval, cret,
                   todo, wpc, wret, swaps, hist, completed, owed, wake>>

NextSC ==
    \/ \E p \in Procs, o \in {"Get", "Swap", "ReEnter"} : Call(p, o)
    \/ \E p \in Procs : CallLock(p)
    \/ \E p \in Procs : GetRead(p)
    \/ \E p \in Procs : SwapWrite(p)
    \/ \E p \in Procs, c \in Ctxs : BumpOne(p, c)
    \/ \E p \in Procs : BumpDone(p)
    \/ \E p \in Procs : CallUnlock(p)
    \/ \E c \in Ctxs : WatchLock(c)
    \/ \E c \in Ctxs : WatchRegister(c)
    \/ \E c \in Ctxs : WatcherUnlock(c)
    \/ \E c \in Ctxs : WatcherRecv(c)
    \/ \E c \in Ctxs : WatcherGetLock(c)
    \/ \E c \in Ctxs : WatcherGetRead(c)
    \/ \E c \in Ctxs : CtxCancel(c)
    \/ \E c \in Ctxs : CancelWake(c)
    \/ \E c \in Ctxs : CancelLock(c)
    \/ \E c \in Ctxs : CancelDelete(c)
    \/ \E c \in Ctxs : CancelUnlock(c)

----------------------------------------------------------------------------
(* RunLoop alone, for any fn, with the durations it sleeps.  A time.Duration
   is a number of nanoseconds. *)

Ms(n) == n * 1000000

Min(a, b) == IF a < b THEN a ELSE b

\* the values of maxRetry and resync the loop is started with
MaxRetries == {Ms(25), Ms(100)}
Resyncs == {0, Ms(1)}

\* capacity of the signal channel given to RunLoop
SignalCap == 2

\* faulty variant: the retry delay does not grow
NextRetryFixed(last, maxRetry) == Min(Ms(50), maxRetry)

\* attempt, after fn returned false: the value of lastRetry it then sleeps for
NextRetry(last, maxRetry) ==
    LET first == IF last = 0 THEN Ms(50) ELSE last
        grown == first + first \div 8
    IN  IF grown > maxRetry THEN maxRetry ELSE grown

\* faulty variant: a delay drawn from the whole duration
JitterFull(duration) == {0, duration}

\* Jitter: duration + Int63n(2 * maxJitter) - maxJitter, of which the smallest,
\* the middle and the largest result stand for all of them
Jitter(duration) ==
    LET maxJitter == (duration * 5) \div 100
    IN  {duration - maxJitter, duration, duration + maxJitter - 1}

\* elapsed times are followed up to this value
MaxElapsed == Ms(250)

Elapse(t, d) == Min(MaxElapsed, t + d)

closeVars == <<rsigClosed, rchClosed, rpanic>>

InitRL ==
    /\ rpc = "init"
    /\ rch = 0
    /\ rsig = 0
    /\ rfwd = "recv"
    /\ rargs = [resync |-> 0, maxRetry |-> 0]
    /\ lastRetry = 0
    /\ fails = 0
    /\ calls = "none"
    /\ sinceFn = 0
    /\ signalled = 0
    /\ rsigClosed = FALSE
    /\ rchClosed = FALSE
    /\ rpanic = FALSE

\* RunLoop(signal, resync, maxRetry, fn): ch is made and gets its initial item
RLStart(resync, maxRetry) ==
    /\ rpc = "init"
    /\ rargs' = [resync |-> resync, maxRetry |-> maxRetry]
    /\ rch' = 1
    /\ rpc' = "recv"
    /\ UNCHANGED <<notRL, rsig, rfwd, lastRetry, fails, calls, sinceFn, signalled, closeVars>>

\* somebody sends on the signal channel
RLSignal ==
    /\ ~rsigClosed
    /\ signalled < MaxSignals
    /\ rsig < SignalCap
    /\ rsig' = rsig + 1
    /\ signalled' = signalled + 1
    /\ UNCHANGED <<notRL, rpc, rch, rfwd, rargs, lastRetry, fails, calls, sinceFn, closeVars>>

\* for range signal
RLForwardRecv ==
    /\ rpc # "init"
    /\ ~rpanic
    /\ rfwd = "recv"
    /\ rsig > 0
    /\ rsig' = rsig - 1
    /\ rfwd' = "send"
    /\ UNCHANGED <<notRL, rpc, rch, rargs, lastRetry, fails, calls, sinceFn, signalled, closeVars>>

\* ch <- struct{}{}
RLForwardSend ==
    /\ ~rpanic
    /\ rfwd = "send"
    /\ ChanHasRoom(rch)
    /\ rch' = rch + 1
    /\ rfwd' = "recv"
    /\ UNCHANGED <<notRL, rpc, rsig, rargs, lastRetry, fails, calls, sinceFn, signalled, closeVars>>

\* the owner of the signal channel closes it
RLClose ==
    /\ rpc # "init"
    /\ ~rsigClosed
    /\ rsigClosed' = TRUE
    /\ UNCHANGED <<notRL, rpc, rch, rsig, rfwd, rargs, lastRetry, fails, calls, sinceFn,
                   signalled, rchClosed, rpanic>>

\* for range signal ends on the closed and drained channel: close(ch)
RLForwardClose ==
    /\ rpc # "init"
    /\ ~rpanic
    /\ rfwd = "recv"
    /\ rsig = 0
    /\ rsigClosed
    /\ rchClosed' = TRUE
    /\ rfwd' = "done"
    /\ UNCHANGED <<notRL, rpc, rch, rsig, rargs, lastRetry, fails, calls, sinceFn, signalled,
                   rsigClosed, rpanic>>

\* the resync ticker fires: select { case ch <- struct{}{}: default: }, a send
\* that is dropped when ch is full. The ticker's goroutine outlives the
\* forwarder and RunLoop's return; the send case of a select panics on a
\* closed channel, which ends the process.
RLTick ==
    /\ rpc # "init"
    /\ ~rpanic
    /\ rargs.resync > 0
    /\ IF rchClosed
       THEN /\ rpanic' = TRUE
            /\ rch' = rch
       ELSE /\ ChanHasRoom(rch)
            /\ rch' = rch + 1
            /\ rpanic' = rpanic
    /\ UNCHANGED <<notRL, rpc, rsig, rfwd, rargs, lastRetry, fails, calls, sinceFn, signalled,
                   rsigClosed, rchClosed>>

\* for range ch ends on the closed and drained channel: RunLoop returns
RLReturn ==
    /\ ~rpanic
    /\ rpc = "recv"
    /\ rch = 0
    /\ rchClosed
    /\ rpc' = "returned"
    /\ UNCHANGED <<notRL, rch, rsig, rfwd, rargs, lastRetry, fails, calls, sinceFn, signalled,
                   closeVars>>

\* for range ch: attempt() is called, with a new lastRetry
RLRecv ==
    /\ ~rpanic
    /\ rpc = "recv"
    /\ rch > 0
    /\ rch' = rch - 1
    /\ lastRetry' = 0
    /\ fails' = 0
    /\ rpc' = "fn"
    /\ UNCHANGED <<notRL, rsig, rfwd, rargs, calls, sinceFn, signalled, closeVars>>

\* fn() is called and returns ok
RLFn(ok) ==
    /\ ~rpanic
    /\ rpc = "fn"
    /\ sinceFn' = 0
    /\ IF ok
       THEN /\ rpc' = "cooldown"
            /\ calls' = "true"
            /\ UNCHANGED <<lastRetry, fails>>
       ELSE /\ fails < MaxFails
            /\ lastRetry' = NextRetry(lastRetry, rargs.maxRetry)
            /\ fails' = fails + 1
            /\ calls' = "false"
            /\ rpc' = "backoff"
    /\ UNCHANGED <<notRL, rch, rsig, rfwd, rargs, signalled, closeVars>>

\* time.Sleep(Jitter(lastRetry)) has returned
RLBackoff(d) ==
    /\ ~rpanic
    /\ rpc = "backoff"
    /\ d \in Jitter(lastRetry)
    /\ sinceFn' = Elapse(sinceFn, d)
    /\ rpc' = "fn"
    /\ UNCHANGED <<notRL, rch, rsig, rfwd, rargs, lastRetry, fails, calls, signalled, closeVars>>

\* time.Sleep(Jitter(time.Millisecond * 100)) has returned
RLCooldown(d) ==
    /\ ~rpanic
    /\ rpc = "cooldown"
    /\ d \in Jitter(Ms(100))
    /\ sinceFn' = Elapse(sinceFn, d)
    /\ rpc' = "recv"
    /\ UNCHANGED <<notRL, rch, rsig, rfwd, rargs, lastRetry, fails, calls, signalled, closeVars>>

NextRL ==
    \/ \E resync \in Resyncs, maxRetry \in MaxRetries : RLStart(resync, maxRetry)
    \/ RLSignal
    \/ RLForwardRecv
    \/ RLForwardSend
    \/ RLTick
    \/ RLRecv
    \/ RLClose
    \/ RLForwardClose
    \/ RLReturn
    \/ \E ok \in BOOLEAN : RLFn(ok)
    \/ \E d \in Jitter(lastRetry) : RLBackoff(d)
    \/ \E d \in Jitter(Ms(100)) : RLCooldown(d)

----------------------------------------------------------------------------
(* The coordinator's handler of GET /nodeinventory, one step per statement, for
   two requests of one node, together with syncInventory's Swap, the
   cancellation of a request and the 30-minute deadline. The operations of the
   StateContainer are atomic here: each of them runs under s.lock. A gitSHA is
   modelled by a positive number and "" by 0. *)

Reqs == {"r1", "r2"}
GitSHAs == {1, 2}
\* the after parameter of a request: r1 is any request, r2 one without after
Afters(r) == IF r = "r1" THEN {0} \cup GitSHAs ELSE {0}
\* the fingerprint of the node that sends the requests
NodeFp == "n1"

\* indexedInventory: the gitSHA and the keys of NodesByFingerprint
IndexedInventory(sha, nodes) == [GitSHA |-> sha, NodesByFingerprint |-> nodes]
\* the nil *indexedInventory of a StateContainer before its first Swap
NilState == [nil |-> TRUE]

\* agentAuthorizer.TrustsCert
AgentTrustsCert(state, fingerprint) ==
    state # NilState /\ fingerprint \in state.NodesByFingerprint

\* what toml.NewEncoder(w).Encode(state.NodesByFingerprint[fingerprint]) writes:
\* the node's inventory, which carries the gitSHA, or nothing for a nil pointer
EncodeNodeInv(state, fingerprint) ==
    IF fingerprint \in state.NodesByFingerprint THEN state.GitSHA ELSE 0

NotWritten == [status |-> 0, body |-> 0]

\* the condition under which the handler responds
ShouldRespondAlways(aft, state) == TRUE
ShouldRespond(aft, state) == aft = 0 \/ (state # NilState /\ state.GitSHA # aft)

\* ctx.Err() != nil: ctx is r.Context() until the handler assigns it the
\* context made by WithTimeout, whose parent is r.Context()
CtxErrOfRequest(r) == reqDone[r]
CtxErr(r) == reqDone[r] \/ timeoutCtx[r] \in {"expired", "cancelled"}

\* s.watchers[ctx] = ch
RegisterNothing(ws, r) == ws
Register(ws, r) == ws \cup {r}

\* the nil channel of var watcher <-chan struct{}
NilChan == [nil |-> TRUE]

\* make(chan struct{}, 1)
NewWatcher == [len |-> 0, closed |-> FALSE]

InitLP ==
    /\ invState = NilState
    /\ invWatchers = {}
    /\ invSwaps = 0
    /\ hpc = [r \in Reqs |-> "idle"]
    /\ hAfter = [r \in Reqs |-> 0]
    /\ reqDone = [r \in Reqs |-> FALSE]
    /\ timeoutCtx = [r \in Reqs |-> "none"]
    /\ watcher = [r \in Reqs |-> NilChan]
    /\ hstate = [r \in Reqs |-> NilState]
    /\ written = [r \in Reqs |-> NotWritten]
    /\ inventoryResponseLock = Nil

\* syncInventory of the coordinator: a pulled gitSHA that differs from the
\* current one is indexed and swapped in, and Swap bumps every watcher
LPSwap(sha, nodes) ==
    /\ invSwaps < MaxInvSwaps
    /\ IF invState = NilState THEN TRUE ELSE invState.GitSHA # sha
    /\ invState' = IndexedInventory(sha, nodes)
    /\ invSwaps' = invSwaps + 1
    /\ watcher' = [r \in Reqs |->
                     IF r \in invWatchers THEN [watcher[r] EXCEPT !.len = Bump(@)]
                                          ELSE watcher[r]]
    /\ UNCHANGED <<notLP, invWatchers, hpc, hAfter, reqDone, timeoutCtx, hstate, written,
                   inventoryResponseLock>>

\* A request of the node passes WithAuth(agentAuth, ...) and enters the handler
LPRequest(r, aft) ==
    /\ hpc[r] = "idle"
    /\ AgentTrustsCert(invState, NodeFp)
    /\ hAfter' = [hAfter EXCEPT ![r] = aft]
    /\ hpc' = [hpc EXCEPT ![r] = "check"]
    /\ UNCHANGED <<notLP, invState, invWatchers, invSwaps, reqDone, timeoutCtx, watcher, hstate,
                   written, inventoryResponseLock>>

\* the handler returns: the deferred done() cancels the timeout context and
\* the deferred Unlock releases the mutex
LPReturn(r) ==
    /\ hpc' = [hpc EXCEPT ![r] = "done"]
    /\ timeoutCtx' = [timeoutCtx EXCEPT ![r] = IF @ = "live" THEN "cancelled" ELSE @]
    /\ inventoryResponseLock' = IF inventoryResponseLock = r THEN Nil
                                ELSE inventoryResponseLock
    /\ hstate' = [hstate EXCEPT ![r] = NilState]

\* if ctx.Err() != nil { w.WriteHeader(400); return }
LPCheck(r) ==
    /\ hpc[r] = "check"
    /\ IF CtxErr(r)
       THEN /\ written' = [written EXCEPT ![r] = [status |-> 400, body |-> 0]]
            /\ LPReturn(r)
       ELSE /\ hpc' = [hpc EXCEPT ![r] = "watch"]
            /\ UNCHANGED <<written, timeoutCtx, inventoryResponseLock, hstate>>
    /\ UNCHANGED <<notLP, invState, invWatchers, invSwaps, hAfter, reqDone, watcher>>

\* if after != "" && watcher == nil { ctx, done = WithTimeout(ctx, 30min);
\* watcher = state.Watch(ctx) }
LPWatch(r) ==
    /\ hpc[r] = "watch"
    /\ IF hAfter[r] # 0 /\ watcher[r] = NilChan
       THEN /\ timeoutCtx' = [timeoutCtx EXCEPT ![r] = IF reqDone[r] THEN "cancelled"
                                                      ELSE "live"]
            /\ watcher' = [watcher EXCEPT ![r] = NewWatcher]
            /\ invWatchers' = Register(invWatchers, r)
       ELSE UNCHANGED <<timeoutCtx, watcher, invWatchers>>
    /\ hpc' = [hpc EXCEPT ![r] = "get"]
    /\ UNCHANGED <<notLP, invState, invSwaps, hAfter, reqDone, hstate, written,
                   inventoryResponseLock>>

\* state := state.Get(); nodeinv := state.NodesByFingerprint[...]; the
\* comparison with after. The handler is entered only with a state that is not
\* nil, and no Swap stores nil.
LPGet(r) ==
    /\ hpc[r] = "get"
    /\ hstate' = [hstate EXCEPT ![r] = invState]
    /\ hpc' = [hpc EXCEPT ![r] = IF ShouldRespond(hAfter[r], invState) THEN "lock"
                                 ELSE IF watcher[r] # NilChan THEN "wait"
                                 ELSE "check"]
    /\ UNCHANGED <<notLP, invState, invWatchers, invSwaps, hAfter, reqDone, timeoutCtx, watcher,
                   written, inventoryResponseLock>>

\* inventoryResponseLock.Lock()
LPLock(r) ==
    /\ hpc[r] = "lock"
    /\ inventoryResponseLock = Nil
    /\ inventoryResponseLock' = r
    /\ hpc' = [hpc EXCEPT ![r] = "write"]
    /\ UNCHANGED <<notLP, invState, invWatchers, invSwaps, hAfter, reqDone, timeoutCtx, watcher,
                   hstate, written>>

\* toml.NewEncoder(w).Encode(nodeinv); return
LPWrite(r) ==
    /\ hpc[r] = "write"
    /\ written' = [written EXCEPT ![r] = [status |-> 200,
                                          body |-> EncodeNodeInv(hstate[r], NodeFp)]]
    /\ LPReturn(r)
    /\ UNCHANGED <<notLP, invState, invWatchers, invSwaps, hAfter, reqDone, watcher>>

\* <-watcher: an item of the channel, or the zero value of a closed channel
LPWait(r) ==
    /\ hpc[r] = "wait"
    /\ watcher[r].len > 0 \/ watcher[r].closed
    /\ watcher' = [watcher EXCEPT ![r].len = IF @ > 0 THEN @ - 1 ELSE @]
    /\ hpc' = [hpc EXCEPT ![r] = "check"]
    /\ UNCHANGED <<notLP, invState, invWatchers, invSwaps, hAfter, reqDone, timeoutCtx, hstate,
                   written, inventoryResponseLock>>

\* the client goes away: r.Context() is cancelled, and its children with it
LPCancel(r) ==
    /\ hpc[r] \notin {"idle", "done"}
    /\ ~reqDone[r]
    /\ reqDone' = [reqDone EXCEPT ![r] = TRUE]
    /\ timeoutCtx' = [timeoutCtx EXCEPT ![r] = IF @ = "live" THEN "cancelled" ELSE @]
    /\ UNCHANGED <<notLP, invState, invWatchers, invSwaps, hpc, hAfter, watcher, hstate, written,
                   inventoryResponseLock>>

\* thirty minutes have passed since WithTimeout
LPDeadline(r) ==
    /\ timeoutCtx[r] = "live"
    /\ timeoutCtx' = [timeoutCtx EXCEPT ![r] = "expired"]
    /\ UNCHANGED <<notLP, invState, invWatchers, invSwaps, hpc, hAfter, reqDone, watcher, hstate,
                   written, inventoryResponseLock>>

\* the goroutine started by Watch: <-ctx.Done(); delete(s.watchers, ctx); close(ch)
LPWatchDone(r) ==
    /\ watcher[r] # NilChan
    /\ ~watcher[r].closed
    /\ timeoutCtx[r] \in {"expired", "cancelled"}
    /\ invWatchers' = invWatchers \ {r}
    /\ watcher' = [watcher EXCEPT ![r].closed = TRUE]
    /\ UNCHANGED <<notLP, invState, invSwaps, hpc, hAfter, reqDone, timeoutCtx, hstate, written,
                   inventoryResponseLock>>

NextLP ==
    \/ \E sha \in GitSHAs, nodes \in SUBSET {NodeFp} : LPSwap(sha, nodes)
    \/ \E r \in Reqs : \E aft \in Afters(r) : LPRequest(r, aft)
    \/ \E r \in Reqs : LPCheck(r)
    \/ \E r \in Reqs : LPWatch(r)
    \/ \E r \in Reqs : LPGet(r)
    \/ \E r \in Reqs : LPLock(r)
    \/ \E r \in Reqs : LPWrite(r)
    \/ \E r \in Reqs : LPWait(r)
    \/ \E r \in Reqs : LPCancel(r)
    \/ \E r \in Reqs : LPDeadline(r)
    \/ \E r \in Reqs : LPWatchDone(r)

----------------------------------------------------------------------------
(* The coordinator's API behind rpc.WithAuth: one request at a time passes the
   middleware and then the handler of its route, while syncInventory swaps
   inventories in. The TLS listener asks for a client certificate
   (tls.RequireAnyClientCert); WithAuth itself also answers a request that
   carries none. *)

Certs == {"certA", "certB"}
NoCert == "none"
\* GetCertFingerprint: the sha256 of the leaf certificate, in hexadecimal
GetCertFingerprint(cert) == IF cert = "certA" THEN "fpA" ELSE "fpB"
Fingerprints == {GetCertFingerprint(c) : c \in Certs}

AgentRoutes == {"/nodeinventory", "/decrypt", "/registernode"}
ClientRoutes == {"/nodes/:fingerprint/logs", "/status"}
Routes == AgentRoutes \cup ClientRoutes

\* newApiHandler: the authorizer each route is wrapped with
RouteAuthAgentOnly(route) == "agentAuth"
RouteAuth(route) == IF route \in AgentRoutes THEN "agentAuth" ELSE "clientAuth"

\* indexedInventory: the keys of NodesByFingerprint and of ClientsByFingerprint
Inventory(nodes, clients) == [NodesByFingerprint |-> nodes, ClientsByFingerprint |-> clients]

\* agentAuthorizer.TrustsCert and clientAuthorizer.TrustsCert on the state that
\* Container.Get() returns
TrustsCert(auth, state, fingerprint) ==
    IF state = NilState THEN FALSE
    ELSE IF auth = "agentAuth" THEN fingerprint \in state.NodesByFingerprint
    ELSE fingerprint \in state.ClientsByFingerprint

\* auth == nil || !auth.TrustsCert(fingerprint)
DeniedInverted(auth, state, fingerprint) ==
    auth = Nil \/ TrustsCert(auth, state, fingerprint)
Denied(auth, state, fingerprint) ==
    auth = Nil \/ ~TrustsCert(auth, state, fingerprint)

\* url.Values, restricted to the key "fingerprint": the values under that key,
\* in the order of the query string
Queries == {<<>>} \cup {<<f>> : f \in Fingerprints}
               \cup {q \in Fingerprints \X Fingerprints : q[1] # q[2]}
\* q.Set("fingerprint", value) replaces the values of the key; q.Add would append
QueryAdd(q, value) == Append(q, value)
QuerySet(q, value) == <<value>>
\* q.Get("fingerprint"): the first value of the key, or ""
QueryGet(q) == IF q = <<>> THEN "" ELSE q[1]

NoRequest == [pc |-> "idle"]
\* nodeinv: the node whose inventory /nodeinventory encoded (nil: none)
NoOutcome == [status |-> 0, invoked |-> FALSE, nodeinv |-> Nil]

InitAuth ==
    /\ cstate = NilState
    /\ areq = NoRequest
    /\ aout = NoOutcome
    /\ nodeStore = {}

\* syncInventory swaps in the inventory of another commit
AuthSwap(nodes, clients) ==
    /\ cstate # Inventory(nodes, clients)
    /\ cstate' = Inventory(nodes, clients)
    /\ UNCHANGED <<notAuth, areq, aout, nodeStore>>

\* A request arrives at a route of newApiHandler, or at a handler wrapped with
\* no authorizer. It may carry fingerprint parameters of its own.
Arrive(route, cert, auth, query) ==
    /\ areq.pc = "idle"
    /\ areq' = [pc |-> "WithAuth", route |-> route, cert |-> cert, auth |-> auth,
                sent |-> query, query |-> query, state |-> NilState]
    /\ aout' = NoOutcome
    /\ UNCHANGED <<notAuth, cstate, nodeStore>>

\* rpc.WithAuth up to the call of next
WithAuth ==
    /\ areq.pc = "WithAuth"
    /\ IF areq.cert = NoCert
       THEN /\ aout' = [aout EXCEPT !.status = 401]
            /\ areq' = [areq EXCEPT !.pc = "done"]
       ELSE IF Denied(areq.auth, cstate, GetCertFingerprint(areq.cert))
       THEN /\ aout' = [aout EXCEPT !.status = 403]
            /\ areq' = [areq EXCEPT !.pc = "done", !.state = cstate]
       ELSE /\ aout' = aout
            /\ areq' = [areq EXCEPT !.pc = "next", !.state = cstate,
                                    !.query = QuerySet(areq.query,
                                                       GetCertFingerprint(areq.cert))]
    /\ UNCHANGED <<notAuth, cstate, nodeStore>>

\* next(w, r, ps): the handler of the route runs with the fingerprint it reads
\* from the query. newGetNodeInventoryHandler encodes
\* state.NodesByFingerprint[fingerprint] of the current state (a nil entry
\* encodes nothing); newRegisterNodeHandler stores the node's metadata under
\* the fingerprint.
NextHandler ==
    /\ areq.pc = "next"
    /\ aout' = [status |-> 0, invoked |-> TRUE,
                nodeinv |-> IF /\ areq.route = "/nodeinventory"
                               /\ QueryGet(areq.query) \in cstate.NodesByFingerprint
                            THEN QueryGet(areq.query) ELSE Nil]
    /\ nodeStore' = IF areq.route = "/registernode"
                    THEN nodeStore \cup {QueryGet(areq.query)}
                    ELSE nodeStore
    /\ areq' = [areq EXCEPT !.pc = "done"]
    /\ UNCHANGED <<notAuth, cstate>>

\* the server has sent the response and is done with the request
Served ==
    /\ areq.pc = "done"
    /\ areq' = NoRequest
    /\ aout' = NoOutcome
    /\ UNCHANGED <<notAuth, cstate, nodeStore>>

NextAuth ==
    \/ \E nodes \in SUBSET Fingerprints, clients \in SUBSET Fingerprints : AuthSwap(nodes, clients)
    \/ \E route \in Routes, cert \in Certs \cup {NoCert}, query \in Queries :
         Arrive(route, cert, RouteAuth(route), query)
    \/ \E route \in Routes, cert \in Certs \cup {NoCert} : Arrive(route, cert, Nil, <<>>)
    \/ WithAuth
    \/ NextHandler
    \/ Served

----------------------------------------------------------------------------
(* The rpc client's side of a TLS handshake: crypto/tls calls
   VerifyPeerCertificate with the certificates the server presented, leaf
   first, and the request is sent only on an established connection. *)

\* the chains a server may present
Chains == UNION {[1..n -> Certs] : n \in 1..MaxChain}

\* the client's Authorizer: the fingerprints it trusts
AuthorizerTrusts(trusts, fingerprint) == fingerprint \in trusts

\* for _, cert := range rawCerts: the certificate examined after the i-th
LeafOnly(i, rawCerts) == Len(rawCerts) + 1
NextCert(i, rawCerts) == i + 1

ErrUntrustedServer(fingerprint) == [error |-> "untrusted server certificate",
                                    Fingerprint |-> fingerprint]
NoError == [error |-> Nil]

NoDial == [pc |-> "idle"]

InitTLS == dial = NoDial

\* the client connects to a server that presents rawCerts
Dial(rawCerts, trusts) ==
    /\ dial.pc = "idle"
    /\ dial' = [pc |-> "verify", rawCerts |-> rawCerts, trusts |-> trusts, i |-> 1,
                err |-> NoError, delivered |-> FALSE]
    /\ UNCHANGED notTLS

\* one iteration of the loop of VerifyPeerCertificate
VerifyCert ==
    /\ dial.pc = "verify"
    /\ dial.i <= Len(dial.rawCerts)
    /\ dial' = IF AuthorizerTrusts(dial.trusts, GetCertFingerprint(dial.rawCerts[dial.i]))
               THEN [dial EXCEPT !.pc = "established"]
               ELSE [dial EXCEPT !.i = NextCert(dial.i, dial.rawCerts)]
    /\ UNCHANGED notTLS

\* the loop is over: return &ErrUntrustedServer{GetCertFingerprint(rawCerts[0])},
\* and the handshake fails with that error
VerifyFail ==
    /\ dial.pc = "verify"
    /\ dial.i > Len(dial.rawCerts)
    /\ dial' = [dial EXCEPT !.pc = "failed",
                            !.err = ErrUntrustedServer(GetCertFingerprint(dial.rawCerts[1]))]
    /\ UNCHANGED notTLS

\* c.Client.Do(req) writes the request to the established connection
SendRequest ==
    /\ dial.pc = "established"
    /\ dial' = [dial EXCEPT !.pc = "done", !.delivered = TRUE]
    /\ UNCHANGED notTLS

\* the call of the client returns
DialReturn ==
    /\ dial.pc \in {"done", "failed"}
    /\ dial' = NoDial
    /\ UNCHANGED notTLS

NextTLS ==
    \/ \E rawCerts \in Chains, trusts \in SUBSET Fingerprints : Dial(rawCerts, trusts)
    \/ VerifyCert
    \/ VerifyFail
    \/ SendRequest
    \/ DialReturn

----------------------------------------------------------------------------
(* The coordinator process: main runs one syncInventory and exits if it fails,
   then starts the RunLoop that keeps syncing and the private listener.
   syncInventory is modelled one step per statement, next to the pushes to the
   GitOps repository, a long poll's watcher and /registernode requests, whose
   authorization and store.Set are separate steps. A gitSHA is the number of
   the commit. *)

\* cluster.toml at a commit: absent, not decodable, or its nodes and clients
NoClusterToml == [kind |-> "missing"]
BadClusterToml == [kind |-> "invalid"]
ClusterToml(nodes, clients) == [kind |-> "toml", nodes |-> nodes, clients |-> clients]
Clusters == {NoClusterToml, BadClusterToml,
             ClusterToml({"fpA"}, {}), ClusterToml({"fpA", "fpB"}, {"fpB"}),
             ClusterToml({"fpB"}, {})}

Commit(sha, cluster) == [sha |-> sha, cluster |-> cluster]

\* current != nil && current.GitSHA == sha
SameSHANever(state, sha) == FALSE
SameSHA(state, sha) == state # NilState /\ state.GitSHA = sha

\* inv := &indexedInventory{GitSHA: sha, ...} with empty maps
NewIndexedInventory(sha) ==
    [GitSHA |-> sha, NodesByFingerprint |-> {}, ClientsByFingerprint |-> {}]

\* the loops of readInventory over cluster.Nodes and cluster.Clients
FillInventory(i, cluster) ==
    [i EXCEPT !.NodesByFingerprint = cluster.nodes, !.ClientsByFingerprint = cluster.clients]

\* the pruning loop of readInventory: for every value of the store whose
\* Fingerprint is no key of inv.NodesByFingerprint, delete the key that equals
\* that Fingerprint
Prune(store, nodes) ==
    LET gone == {e[2] : e \in {x \in store : x[2] \notin nodes}}
    IN {e \in store : e[1] \notin gone}

\* nodeMetadataStore.Set(fingerprint, meta) with meta.Fingerprint = fingerprint
StoreSet(store, fingerprint) ==
    {e \in store : e[1] # fingerprint} \cup {<<fingerprint, fingerprint>>}

StoreKeys(store) == {e[1] : e \in store}

\* main goes on to the RunLoop and the listener only if the first
\* syncInventory returned nil; otherwise log.Fatalf ends the process
StartAfterAny(res) == TRUE
StartAfter(res) == res = "ok"

NoRegister == [pc |-> "idle"]

InitSync ==
    /\ remote = Commit(1, NoClusterToml)
    /\ workdir = Commit(0, NoClusterToml)
    /\ kstate = NilState
    /\ building = NilState
    /\ kwatch = -1
    /\ nms = {}
    /\ mainpc = "sync"
    /\ spc = "idle"
    /\ sres = "none"
    /\ reg = NoRegister
    /\ regDuring = FALSE
    /\ nmsBefore = {}

SyncRunning == spc \notin {"idle", "returned"}

\* a commit is pushed to the repository
Push(cluster) ==
    /\ remote.sha < 1 + MaxPushes
    /\ remote' = Commit(remote.sha + 1, cluster)
    /\ UNCHANGED <<notSync, workdir, kstate, building, kwatch, nms, mainpc, spc, sres, reg,
                   regDuring, nmsBefore>>

\* main, or the RunLoop it started, calls syncInventory
SyncCall ==
    /\ spc = "idle"
    /\ mainpc \in {"sync", "serving"}
    /\ spc' = "pull"
    /\ sres' = "none"
    /\ regDuring' = (reg # NoRegister)
    /\ nmsBefore' = nms
    /\ UNCHANGED <<notSync, remote, workdir, kstate, building, kwatch, nms, mainpc, reg>>

\* sha, err := gitPull(dir)
GitPull(ok) ==
    /\ spc = "pull"
    /\ IF ok THEN /\ workdir' = remote
                  /\ spc' = "compare"
                  /\ sres' = sres
             ELSE /\ workdir' = workdir
                  /\ spc' = "returned"
                  /\ sres' = "err"
    /\ UNCHANGED <<notSync, remote, kstate, building, kwatch, nms, mainpc, reg, regDuring,
                   nmsBefore>>

\* if current := state.Get(); current != nil && current.GitSHA == sha { return nil }
\* inv := &indexedInventory{...}
SyncCompare ==
    /\ spc = "compare"
    /\ IF SameSHA(kstate, workdir.sha)
       THEN /\ spc' = "returned"
            /\ sres' = "ok"
            /\ building' = building
       ELSE /\ spc' = "read"
            /\ sres' = sres
            /\ building' = NewIndexedInventory(workdir.sha)
    /\ UNCHANGED <<notSync, remote, workdir, kstate, kwatch, nms, mainpc, reg, regDuring,
                   nmsBefore>>

\* err = readInventory(dir, inv, nms)
ReadInventory ==
    /\ spc = "read"
    /\ CASE workdir.cluster = NoClusterToml ->
              \* os.IsNotExist: return nil, before the maps and the pruning
              /\ spc' = "swap"
              /\ UNCHANGED <<building, nms, sres>>
         [] workdir.cluster = BadClusterToml ->
              /\ spc' = "returned"
              /\ sres' = "err"
              /\ building' = NilState
              /\ nms' = nms
         [] OTHER ->
              /\ building' = FillInventory(building, workdir.cluster)
              /\ nms' = Prune(nms, workdir.cluster.nodes)
              /\ spc' = "swap"
              /\ sres' = sres
    /\ UNCHANGED <<notSync, remote, workdir, kstate, kwatch, mainpc, reg, regDuring,
                   nmsBefore>>

\* state.Swap(inv); return nil
SyncSwap ==
    /\ spc = "swap"
    /\ kstate' = building
    /\ kwatch' = IF kwatch >= 0 THEN Bump(kwatch) ELSE kwatch
    /\ building' = NilState
    /\ spc' = "returned"
    /\ sres' = "ok"
    /\ UNCHANGED <<notSync, remote, workdir, nms, mainpc, reg, regDuring, nmsBefore>>

\* main after its call of syncInventory: log.Fatalf, or go RunLoop and
\* ListenAndServeTLS
MainAfterSync ==
    /\ mainpc = "sync"
    /\ spc = "returned"
    /\ mainpc' = IF StartAfter(sres) THEN "serving" ELSE "exited"
    /\ spc' = "idle"
    /\ UNCHANGED <<notSync, remote, workdir, kstate, building, kwatch, nms, sres, reg,
                   regDuring, nmsBefore>>

\* the function RunLoop calls returns err == nil
LoopAfterSync ==
    /\ mainpc = "serving"
    /\ spc = "returned"
    /\ spc' = "idle"
    /\ UNCHANGED <<notSync, remote, workdir, kstate, building, kwatch, nms, mainpc, sres, reg,
                   regDuring, nmsBefore>>

\* the process is started again after log.Fatalf
CoordinatorRestart ==
    /\ mainpc = "exited"
    /\ mainpc' = "sync"
    /\ sres' = "none"
    /\ kstate' = NilState
    /\ building' = NilState
    /\ kwatch' = -1
    /\ nms' = {}
    /\ reg' = NoRegister
    /\ UNCHANGED <<notSync, remote, workdir, spc, regDuring, nmsBefore>>

\* a long poll registers its watcher; the watcher receives
WatchArrive ==
    /\ mainpc = "serving"
    /\ kwatch = -1
    /\ kwatch' = 0
    /\ UNCHANGED <<notSync, remote, workdir, kstate, building, nms, mainpc, spc, sres, reg,
                   regDuring, nmsBefore>>

WatchReceive ==
    /\ kwatch = 1
    /\ kwatch' = 0
    /\ UNCHANGED <<notSync, remote, workdir, kstate, building, nms, mainpc, spc, sres, reg,
                   regDuring, nmsBefore>>

\* POST /registernode passes WithAuth(agentAuth, ...)
RegisterArrive(fingerprint) ==
    /\ mainpc = "serving"
    /\ reg = NoRegister
    /\ AgentTrustsCert(kstate, fingerprint)
    /\ reg' = [pc |-> "authorized", fingerprint |-> fingerprint]
    /\ regDuring' = (regDuring \/ SyncRunning)
    /\ UNCHANGED <<notSync, remote, workdir, kstate, building, kwatch, nms, mainpc, spc, sres,
                   nmsBefore>>

\* newRegisterNodeHandler: store.Set(fingerprint, meta)
RegisterSet ==
    /\ reg # NoRegister
    /\ nms' = StoreSet(nms, reg.fingerprint)
    /\ reg' = NoRegister
    /\ UNCHANGED <<notSync, remote, workdir, kstate, building, kwatch, mainpc, spc, sres,
                   regDuring, nmsBefore>>

NextSync ==
    \/ \E cluster \in Clusters : Push(cluster)
    \/ SyncCall
    \/ \E ok \in BOOLEAN : GitPull(ok)
    \/ SyncCompare
    \/ ReadInventory
    \/ SyncSwap
    \/ MainAfterSync
    \/ LoopAfterSync
    \/ CoordinatorRestart
    \/ WatchArrive
    \/ WatchReceive
    \/ \E fingerprint \in Fingerprints : RegisterArrive(fingerprint)
    \/ RegisterSet

----------------------------------------------------------------------------
(* The coordinator's GET /status: the handler queries /ps of every node of the
   registry in turn, each query with its own timeout, and answers with the
   containers of the nodes that answered. *)

\* the nodes that can be in the registry, and the names podman ps reports
StatusNodes == {"fpA", "fpB", "fpC"}
PsNames == {{}, {"web"}, {"web", "db"}}

\* what one query of https://<ip>:<port>/ps meets: no response within the
\* timeout, a transport or handshake error, or a response with a status, a
\* body that is or is not the JSON list, and the container names in it
PsTimeout == [kind |-> "timeout"]
PsRefused == [kind |-> "error"]
PsResponse(status, json, names) ==
    [kind |-> "response", status |-> status, json |-> json, names |-> names]
NotQueried == [kind |-> "none"]

PsOutcomes ==
    {PsTimeout, PsRefused, PsResponse(403, FALSE, {}), PsResponse(500, FALSE, {}),
     PsResponse(200, FALSE, {})}
        \cup {PsResponse(200, TRUE, names) : names \in PsNames}

\* Client.do: the error of http.Client.Do, ErrUntrustedClient for 403, an
\* error for every other status from 300
ClientDoErr(o) ==
    \/ o.kind # "response"
    \/ o.status = 403
    \/ o.status >= 300

\* faulty variant: only the error of client.GET is tested, not the one of Decode
GetAgentStatusErrNoDecode(o) == ClientDoErr(o)

\* getAgentStatus returns an error: from client.GET or from json Decode
GetAgentStatusErr(o) == IF ClientDoErr(o) THEN TRUE ELSE ~o.json

\* states[i] = {Name: raw.Names[0], NodeFingerprint: node.Fingerprint, ...}
ContainerStates(node, o) == {<<name, node>> : name \in o.names}

InitStatus ==
    /\ stpc = "idle"
    /\ stodo = {}
    /\ partial = FALSE
    /\ stbody = {}
    /\ stcode = 0
    /\ qres = [n \in StatusNodes |-> NotQueried]

\* the handler starts: resp := &api.ClusterState{}; store.List()
StatusArrive(nodes) ==
    /\ stpc = "idle"
    /\ stpc' = "loop"
    /\ stodo' = nodes
    /\ partial' = FALSE
    /\ stbody' = {}
    /\ stcode' = 0
    /\ qres' = [n \in StatusNodes |-> NotQueried]
    /\ UNCHANGED notStatus

\* one turn of the loop over store.List(), whose order is that of a map
StatusQuery(node, o) ==
    /\ stpc = "loop"
    /\ node \in stodo
    /\ stodo' = stodo \ {node}
    /\ qres' = [qres EXCEPT ![node] = o]
    /\ IF GetAgentStatusErr(o)
       THEN /\ partial' = TRUE
            /\ stbody' = stbody
       ELSE /\ partial' = partial
            /\ stbody' = stbody \cup ContainerStates(node, o)
    /\ UNCHANGED <<notStatus, stpc, stcode>>

\* if partial { w.WriteHeader(206) }; json.NewEncoder(w).Encode(resp)
StatusRespond ==
    /\ stpc = "loop"
    /\ stodo = {}
    /\ stcode' = IF partial THEN 206 ELSE 200
    /\ stpc' = "done"
    /\ UNCHANGED <<notStatus, stodo, partial, stbody, qres>>

\* the response has been sent
StatusServed ==
    /\ stpc = "done"
    /\ stpc' = "idle"
    /\ UNCHANGED <<notStatus, stodo, partial, stbody, stcode, qres>>

NextStatus ==
    \/ \E nodes \in SUBSET StatusNodes : StatusArrive(nodes)
    \/ \E node \in StatusNodes, o \in PsOutcomes : StatusQuery(node, o)
    \/ StatusRespond
    \/ StatusServed

----------------------------------------------------------------------------
(* rpc.GenCertificate on one directory, one step per statement that reads or
   writes a file, so that a call can fail or the process can die between two
   writes. Certificates are numbered in the order genCert makes them; between
   calls the operator may delete cert.pem or cert-fingerprint.txt. *)

Absent == [kind |-> "absent"]
Truncated == [kind |-> "truncated"]
CertPem(i) == [kind |-> "cert", id |-> i]
KeyPem(i) == [kind |-> "key", id |-> i]
TextFile(text) == [kind |-> "text", text |-> text]

\* hex.EncodeToString(sha256.Sum256(cert)): one string per certificate
LeafFingerprint(i) == <<"sha256", i>>

\* string(content) of a file that exists; a truncated file reads as ""
FileText(f) == IF f.kind = "text" THEN f.text ELSE <<>>

\* tls.LoadX509KeyPair returns no error: both files parse and the key is the
\* certificate's
KeyPairLoads(cert, key) == cert.kind = "cert" /\ key.kind = "key" /\ cert.id = key.id

\* os.WriteFile: written, refused before the file is touched, or failed after
\* the file was truncated
WriteOutcomes == {"ok", "denied", "partial"}
WriteFile(old, new, outcome) ==
    CASE outcome = "ok" -> new
      [] outcome = "denied" -> old
      [] OTHER -> Truncated

NoReturn == [kind |-> "none"]
ReturnErr == [kind |-> "err"]
ReturnOk(cert, fingerprint) == [kind |-> "ok", cert |-> cert, fingerprint |-> fingerprint]

\* if fingerprint, err := os.ReadFile(fingerprintFile); err == nil { return ... }
FingerprintOnFile(f) == f # Absent

\* the fingerprint returned for a pair that loaded while the file exists
LoadedFingerprint(f, cert) == FileText(f)

InitCert ==
    /\ certFile = Absent
    /\ keyFile = Absent
    /\ fingerprintFile = Absent
    /\ gpc = "idle"
    /\ certObj = 0
    /\ generated = 0
    /\ gret = NoReturn
    /\ gprev = NoReturn
    /\ gsince = "other"

\* GenCertificate(dir) is called
GenCall ==
    /\ gpc = "idle"
    /\ gpc' = "load"
    /\ gprev' = IF gret.kind = "ok"
                THEN [kind |-> "ok", cert |-> gret.cert, fingerprint |-> gret.fingerprint,
                      since |-> gsince]
                ELSE NoReturn
    /\ gret' = NoReturn
    /\ gsince' = "nothing"
    /\ UNCHANGED <<notCert, certFile, keyFile, fingerprintFile, certObj, generated>>

\* certObj, err := tls.LoadX509KeyPair(certFile, keyFile)
LoadKeyPair ==
    /\ gpc = "load"
    /\ IF KeyPairLoads(certFile, keyFile)
       THEN gpc' = "readfp" /\ certObj' = certFile.id
       ELSE gpc' = "gen" /\ certObj' = 0
    /\ UNCHANGED <<notCert, certFile, keyFile, fingerprintFile, generated, gret, gprev, gsince>>

\* the pair loaded: return the content of the fingerprint file if it can be read
ReadFingerprint ==
    /\ gpc = "readfp"
    /\ IF FingerprintOnFile(fingerprintFile)
       THEN /\ gpc' = "idle"
            /\ gret' = ReturnOk(certObj, LoadedFingerprint(fingerprintFile, certObj))
       ELSE /\ gpc' = "writefp"
            /\ gret' = gret
    /\ UNCHANGED <<notCert, certFile, keyFile, fingerprintFile, certObj, generated, gprev,
                   gsince>>

\* cert, key, err := genCert()
GenCert ==
    /\ gpc = "gen"
    /\ generated < MaxCerts
    /\ generated' = generated + 1
    /\ certObj' = generated + 1
    /\ gpc' = "writecert"
    /\ UNCHANGED <<notCert, certFile, keyFile, fingerprintFile, gret, gprev, gsince>>

\* os.WriteFile(certFile, cert, 0644)
WriteCert(outcome) ==
    /\ gpc = "writecert"
    /\ certFile' = WriteFile(certFile, CertPem(certObj), outcome)
    /\ IF outcome = "ok"
       THEN gpc' = "writekey" /\ UNCHANGED <<gret, gsince>>
       ELSE gpc' = "idle" /\ gret' = ReturnErr /\ gsince' = "other"
    /\ UNCHANGED <<notCert, keyFile, fingerprintFile, certObj, generated, gprev>>

\* os.WriteFile(keyFile, key, 0644), then the pair is loaded and parsed again
WriteKey(outcome) ==
    /\ gpc = "writekey"
    /\ keyFile' = WriteFile(keyFile, KeyPem(certObj), outcome)
    /\ IF outcome = "ok"
       THEN gpc' = "writefp" /\ UNCHANGED <<gret, gsince>>
       ELSE gpc' = "idle" /\ gret' = ReturnErr /\ gsince' = "other"
    /\ UNCHANGED <<notCert, certFile, fingerprintFile, certObj, generated, gprev>>

\* fingerprint := GetCertFingerprint(certObj.Leaf.Raw);
\* os.WriteFile(fingerprintFile, []byte(fingerprint), 0644); return
WriteFingerprint(outcome) ==
    /\ gpc = "writefp"
    /\ fingerprintFile' = WriteFile(fingerprintFile, TextFile(LeafFingerprint(certObj)), outcome)
    /\ gpc' = "idle"
    /\ IF outcome = "ok"
       THEN gret' = ReturnOk(certObj, LeafFingerprint(certObj)) /\ gsince' = gsince
       ELSE gret' = ReturnErr /\ gsince' = "other"
    /\ UNCHANGED <<notCert, certFile, keyFile, certObj, generated, gprev>>

\* the process dies inside GenCertificate
GenInterrupted ==
    /\ gpc \notin {"idle", "load"}
    /\ gpc' = "idle"
    /\ gret' = NoReturn
    /\ gsince' = "other"
    /\ UNCHANGED <<notCert, certFile, keyFile, fingerprintFile, certObj, generated, gprev>>

\* between calls the operator removes cert-fingerprint.txt, or cert.pem to have
\* a new certificate made
RemoveFingerprint ==
    /\ gpc = "idle"
    /\ fingerprintFile # Absent
    /\ fingerprintFile' = Absent
    /\ gsince' = IF gsince = "nothing" THEN "fpdeleted" ELSE gsince
    /\ UNCHANGED <<notCert, certFile, keyFile, gpc, certObj, generated, gret, gprev>>

RemoveCert ==
    /\ gpc = "idle"
    /\ certFile # Absent
    /\ certFile' = Absent
    /\ gsince' = "other"
    /\ UNCHANGED <<notCert, keyFile, fingerprintFile, gpc, certObj, generated, gret, gprev>>

NextGen ==
    \/ GenCall
    \/ LoadKeyPair
    \/ ReadFingerprint
    \/ GenCert
    \/ \E outcome \in WriteOutcomes : WriteCert(outcome)
    \/ \E outcome \in WriteOutcomes : WriteKey(outcome)
    \/ \E outcome \in WriteOutcomes : WriteFingerprint(outcome)
    \/ GenInterrupted
    \/ RemoveFingerprint
    \/ RemoveCert

----------------------------------------------------------------------------
(* readInventory's loop over cluster.Nodes: every node's container files are
   read through containerIndex, and the node's inventory is stored under its
   fingerprint. *)

Paths == {"web.toml", "db.toml"}
FileResults == {"ok", "unreadable", "malformed"}

\* [[node]] of cluster.toml: fingerprint ("" when not set) and containers
NodeSpec(fingerprint, paths) == [Fingerprint |-> fingerprint, Containers |-> paths]
NodeSpecs ==
    {NodeSpec(f, p) : f \in {"fpA", "fpB", ""},
                      p \in {<<>>, <<"web.toml">>, <<"web.toml", "db.toml">>,
                             <<"db.toml", "web.toml">>}}
ClusterNodes == UNION {[1 .. n -> NodeSpecs] : n \in 0 .. MaxNodes}

\* readContainerSpec: Name is the file's stem, Hash the md5 of its bytes
ReadContainerSpec(path) ==
    [name |-> IF path = "web.toml" THEN "web" ELSE "db", hash |-> <<"md5", path>>]

\* faulty variant: only the error of os.Open is tested
ContainerFileErrOpenOnly(result) == result = "unreadable"

\* readContainerSpec returns an error: os.Open failed or the file did not decode
ContainerFileErr(result) == result # "ok"

\* the loop over node.Containers: <<nodeInv.Containers, containerIndex>>
RECURSIVE NodeContainers(_, _, _, _)
NodeContainers(paths, files, index, acc) ==
    IF paths = <<>> THEN <<acc, index>>
    ELSE LET path == Head(paths)
         IN  IF path \in index
             THEN NodeContainers(Tail(paths), files, index,
                                 Append(acc, ReadContainerSpec(path)))
             ELSE IF ContainerFileErr(files[path])
             THEN NodeContainers(Tail(paths), files, index, acc)
             ELSE NodeContainers(Tail(paths), files, index \cup {path},
                                 Append(acc, ReadContainerSpec(path)))

\* inv.NodesByFingerprint[node.Fingerprint] = nodeInv
PutNode(byFingerprint, fingerprint, nodeInv) ==
    [f \in DOMAIN byFingerprint \cup {fingerprint} |->
        IF f = fingerprint THEN nodeInv ELSE byFingerprint[f]]

NoNodes == [f \in {} |-> <<>>]

InitRead ==
    /\ rdpc = "idle"
    /\ rdNodes = <<>>
    /\ rdFiles = [p \in Paths |-> "ok"]
    /\ rdI = 1
    /\ containerIndex = {}
    /\ rdInv = NoNodes

\* cluster.toml decoded: containerIndex := map[string]*api.ContainerSpec{}
ReadStart(nodes, files) ==
    /\ rdpc = "idle"
    /\ rdpc' = "nodes"
    /\ rdNodes' = nodes
    /\ rdFiles' = files
    /\ rdI' = 1
    /\ containerIndex' = {}
    /\ rdInv' = NoNodes
    /\ UNCHANGED notRead

\* one turn of the loop over cluster.Nodes
ReadNode ==
    /\ rdpc = "nodes"
    /\ rdI <= Len(rdNodes)
    /\ LET node == rdNodes[rdI]
           read == NodeContainers(node.Containers, rdFiles, containerIndex, <<>>)
       IN  IF node.Fingerprint = ""
           THEN UNCHANGED <<containerIndex, rdInv>>
           ELSE /\ containerIndex' = read[2]
                /\ rdInv' = PutNode(rdInv, node.Fingerprint, read[1])
    /\ rdI' = rdI + 1
    /\ UNCHANGED <<notRead, rdpc, rdNodes, rdFiles>>

\* the loop is over: readInventory goes on to the clients and the pruning and
\* returns nil
ReadDone ==
    /\ rdpc = "nodes"
    /\ rdI > Len(rdNodes)
    /\ rdpc' = "done"
    /\ UNCHANGED <<notRead, rdNodes, rdFiles, rdI, containerIndex, rdInv>>

\* syncInventory swaps the inventory in; the next sync starts from idle
ReadSwapped ==
    /\ rdpc = "done"
    /\ rdpc' = "idle"
    /\ UNCHANGED <<notRead, rdNodes, rdFiles, rdI, containerIndex, rdInv>>

NextRead ==
    \/ \E nodes \in ClusterNodes, files \in [Paths -> FileResults] : ReadStart(nodes, files)
    \/ ReadNode
    \/ ReadDone
    \/ ReadSwapped

----------------------------------------------------------------------------
(* syncPodman facing a container whose removal fails every time. The passes
   are those of the agent's model, with the goal fixed: RunLoop retries a pass
   that returned an error after its backoff, a pass that mutated re-enters,
   and the resync ticker starts the pass after a pass that found nothing to
   do, so a pass always follows a pass. The goals hold no secret, so nothing
   is decrypted. *)

\* api.toml has the bytes of web.toml: readContainerSpec gives it the same
\* Hash and the Name api
Api2 == [Web2 EXCEPT !.name = "api"]
TwinInventory == NodeInventory(2, <<Web2, Api2>>)
WedgeGoals == {InvAt(2), TwinInventory}
WedgeSpecs == {Web2, Db, Api2}

\* what podman ps may show when the wedge sets in: two containers of earlier
\* inventories, two containers without the recomposeHash label, and the goal's
\* db, running or exited
WedgePool ==
    {Container("web", "h1", FALSE, <<1>>, ""), Container("old", "h9", FALSE, <<>>, ""),
     Container("cache", "", FALSE, <<>>, ""), Container("tmp", "", FALSE, <<>>, ""),
     Container("db", "h3", FALSE, <<2>>, ""), Container("db", "h3", TRUE, <<2>>, "")}

InitWedge ==
    /\ wdpc = "setup"
    /\ wedged = ""
    /\ wContainers = {}
    /\ wMounts = {}
    /\ wObs = {}
    /\ wGoal = NodeInventory(0, <<>>)

\* the goal and the runtime's state when the removal of w starts to fail ("" : of nothing)
WedgeSetup(goal, cs, w) ==
    /\ wdpc = "setup"
    /\ \A c, d \in cs : c.name = d.name => c = d
    /\ w = "" \/ \E c \in cs : c.name = w /\ IsOrphan(c, GoalIndex(goal))
    /\ wdpc' = "ps"
    /\ wGoal' = goal
    /\ wedged' = w
    /\ wContainers' = cs
    /\ wMounts' = InUseFiles(cs)
    /\ wObs' = {}
    /\ UNCHANGED notWedge

\* existing, err := podmanPs()
WedgePs ==
    /\ wdpc = "ps"
    /\ wObs' = wContainers
    /\ wdpc' = "act"
    /\ UNCHANGED <<notWedge, wedged, wContainers, wMounts, wGoal>>

\* failed removals return the error of podmanRm; the others ReEnter
PodmanRmFails(name) == name = wedged

\* the loop over existingIndex: podman rm --force of the first orphan met in
\* the map's random order, and the pass returns
WedgeRemove(c) ==
    /\ wdpc = "act"
    /\ c \in Orphans(wObs, wGoal)
    /\ wContainers' = IF PodmanRmFails(c.name) THEN wContainers
                      ELSE {d \in wContainers : d.name # c.name}
    /\ wdpc' = "ps"
    /\ wObs' = {}
    /\ UNCHANGED <<notWedge, wedged, wMounts, wGoal>>

\* the loop over goalIndex: podman start of an exited container
WedgeKickstart(s) ==
    /\ wdpc = "act"
    /\ Orphans(wObs, wGoal) = {}
    /\ s \in Range(GoalIndex(wGoal))
    /\ NeedsKickstart(s, wObs)
    /\ wMounts' = CleanedMounts(wMounts, wObs)
    /\ wContainers' = {IF d.name = s.name THEN [d EXCEPT !.exited = FALSE] ELSE d :
                          d \in wContainers}
    /\ wdpc' = "ps"
    /\ wObs' = {}
    /\ UNCHANGED <<notWedge, wedged, wGoal>>

\* the loop over goalIndex: podmanStart of a container with no observed
\* counterpart
WedgeStart(s) ==
    /\ wdpc = "act"
    /\ Orphans(wObs, wGoal) = {}
    /\ s \in Range(GoalIndex(wGoal))
    /\ IsMissing(s, wObs)
    /\ Cardinality(FileIds \ CleanedMounts(wMounts, wObs)) >= s.files
    /\ LET ids == FreshIds(CleanedMounts(wMounts, wObs), s.files)
       IN  /\ wMounts' = CleanedMounts(wMounts, wObs) \cup SeqRange(ids)
           /\ wContainers' = IF \E d \in wContainers : d.name = s.name THEN wContainers
                             ELSE wContainers \cup {Container(s.name, s.hash, FALSE, ids,
                                                             KickstartLabel(s))}
    /\ wdpc' = "ps"
    /\ wObs' = {}
    /\ UNCHANGED <<notWedge, wedged, wGoal>>

\* neither loop found anything to do; the ticker starts the next pass
WedgeConverged ==
    /\ wdpc = "act"
    /\ Orphans(wObs, wGoal) = {}
    /\ \A s \in Range(GoalIndex(wGoal)) : ~IsMissing(s, wObs) /\ ~NeedsKickstart(s, wObs)
    /\ wMounts' = CleanedMounts(wMounts, wObs)
    /\ wdpc' = "ps"
    /\ wObs' = {}
    /\ UNCHANGED <<notWedge, wedged, wContainers, wGoal>>

\* a running container of the goal exits
WedgeExit(c) ==
    /\ wdpc # "setup"
    /\ c \in wContainers
    /\ ~c.exited
    /\ c.hash \in DOMAIN GoalIndex(wGoal)
    /\ wContainers' = (wContainers \ {c}) \cup {[c EXCEPT !.exited = TRUE]}
    /\ UNCHANGED <<notWedge, wdpc, wedged, wMounts, wObs, wGoal>>

NextWedge ==
    \/ \E goal \in WedgeGoals, cs \in SUBSET WedgePool, w \in {"", "web", "old", "cache", "tmp"} :
           WedgeSetup(goal, cs, w)
    \/ WedgePs
    \/ \E c \in WedgePool : WedgeRemove(c)
    \/ \E s \in WedgeSpecs : WedgeKickstart(s)
    \/ \E s \in WedgeSpecs : WedgeStart(s)
    \/ WedgeConverged
    \/ \E c \in wContainers : WedgeExit(c)

----------------------------------------------------------------------------
(* The agent's syncInventory and inventory.toml, against any sequence of
   responses: RunLoop calls syncInventory again after every return, and the
   agent's process may be restarted at any point. *)

InvFileResponses ==
    {TransportError, [status |-> 403, body |-> EmptyBody], [status |-> 400, body |-> EmptyBody],
     [status |-> 200, body |-> TomlEncode(InvAt(1))],
     [status |-> 200, body |-> TomlEncode(InvAt(2))],
     [status |-> 200, body |-> Garbled]}

InitInvFile ==
    /\ ivPc = "seed"
    /\ ivState = NilInventory
    /\ ivFile = NoFile
    /\ ivResp = NoResponse
    /\ ivInstalled = {}

\* current := state.Get(); if current == nil { toml.DecodeFile(file, current);
\* state.Swap(current) }: the error of DecodeFile is logged only
InvFileSeed ==
    /\ ivPc = "seed"
    /\ ivState' = IF ivState = NilInventory THEN TomlDecode(ivFile)[1] ELSE ivState
    /\ ivPc' = "wait"
    /\ UNCHANGED <<notDiskInv, ivFile, ivResp, ivInstalled>>

\* client.Get returns an error, or a response of any status
InvFileResponse(r) ==
    /\ ivPc = "wait"
    /\ ivResp' = IF ClientGetFails(r) THEN NoResponse ELSE r
    /\ ivPc' = IF ClientGetFails(r) THEN "seed" ELSE "write"
    /\ UNCHANGED <<notDiskInv, ivState, ivFile, ivInstalled>>

\* io.ReadAll(resp.Body); os.WriteFile(file, body, 0644), which may fail to
\* open the file
InvFileWrite(fail) ==
    /\ ivPc = "write"
    /\ ivFile' = IF fail THEN ivFile ELSE ivResp.body
    /\ ivPc' = IF fail THEN "seed" ELSE "decode"
    /\ UNCHANGED <<notDiskInv, ivState, ivResp, ivInstalled>>

\* toml.Decode(string(body), inv): an error returns; otherwise state.Swap(inv)
InvFileDecode ==
    /\ ivPc = "decode"
    /\ LET d == TomlDecode(ivResp.body)
       IN  IF d[2]
           THEN UNCHANGED <<ivState, ivInstalled>>
           ELSE /\ ivState' = d[1]
                /\ ivInstalled' = ivInstalled \cup {d[1]}
    /\ ivPc' = "seed"
    /\ UNCHANGED <<notDiskInv, ivFile, ivResp>>

\* the agent's process ends and starts again: the state container is new, the
\* file stays
InvFileRestart ==
    /\ ivState # NilInventory
    /\ ivState' = NilInventory
    /\ ivPc' = "seed"
    /\ ivResp' = NoResponse
    /\ UNCHANGED <<notDiskInv, ivFile, ivInstalled>>

NextInvFile ==
    \/ InvFileSeed
    \/ \E r \in InvFileResponses : InvFileResponse(r)
    \/ \E fail \in BOOLEAN : InvFileWrite(fail)
    \/ InvFileDecode
    \/ InvFileRestart

----------------------------------------------------------------------------
(* The agent: initial state and next-state relation *)

Init ==
    /\ coordIdx = 1
    /\ coordUp = TRUE
    /\ trusted = TRUE
    /\ current = NilInventory
    /\ wch = 0
    /\ file = NoFile
    /\ mounts = {}
    /\ ch = [l \in Loops |-> 1]
    /\ fwd = [l \in Loops |-> "recv"]
    /\ lpc = [l \in Loops |-> "recv"]
    /\ snapGoal = NilInventory
    /\ snapObs = {}
    /\ after = 0
    /\ resp = NoResponse
    /\ containers = {}
    /\ budget = [publish |-> MaxPublish, faults |-> MaxFaults]
    /\ lastPass = Pass(<<>>, 0, {}, FALSE)
    /\ outage = NoOutage
    /\ InitSC
    /\ InitRL
    /\ InitLP
    /\ InitAuth
    /\ InitTLS
    /\ InitSync
    /\ InitStatus
    /\ InitCert
    /\ InitRead
    /\ InitWedge
    /\ InitInvFile

Specs == {Web1, Web2, Db}

Next ==
    \/ \E l \in Loops : LoopRecv(l)
    \/ \E l \in Loops : LoopRetry(l)
    \/ \E l \in Loops : LoopCooldown(l)
    \/ \E l \in Loops : ForwardRecv(l)
    \/ \E l \in Loops : ForwardSend(l)
    \/ \E l \in Loops : Tick(l)
    \/ InvSeed
    \/ InvResponse
    \/ InvWrite
    \/ InvDecode
    \/ SyncPodmanNil
    \/ \E fail \in BOOLEAN : SyncPodmanPs(fail)
    \/ \E c \in snapObs, fail \in BOOLEAN : SyncPodmanRemove(c, fail)
    \/ SyncPodmanMountsFail
    \/ \E s \in Specs, fail \in BOOLEAN : SyncPodmanKickstart(s, fail)
    \/ \E s \in Specs, fail \in BOOLEAN : SyncPodmanStart(s, fail)
    \/ SyncPodmanConverged
    \/ \E t \in BOOLEAN : Publish(t)
    \/ CoordinatorDown
    \/ CoordinatorUp
    \/ \E c \in containers : ContainerExit(c)
    \/ AgentRestart

Spec == Init /\ [][Next]_vars

\* the StateContainer alone
SpecSC == Init /\ [][NextSC]_vars

\* Every goroutine that can take a step does, and a goroutine blocked in Lock()
\* gets the mutex: sync.Mutex hands it over to a waiter that has waited for more
\* than a millisecond (starvation mode). Nothing is assumed about when callers
\* call, watchers receive or contexts are cancelled.
FairnessSC ==
    /\ \A p \in Procs : WF_vars(GetRead(p) \/ SwapWrite(p) \/ BumpDone(p) \/ CallUnlock(p))
    /\ \A p \in Procs : WF_vars(\E c \in Ctxs : BumpOne(p, c))
    /\ \A p \in Procs : SF_vars(CallLock(p))
    /\ \A c \in Ctxs : WF_vars(WatchRegister(c) \/ WatcherUnlock(c) \/ WatcherGetRead(c))
    /\ \A c \in Ctxs : SF_vars(WatcherGetLock(c))
    /\ \A c \in Ctxs : WF_vars(CancelWake(c) \/ CancelDelete(c) \/ CancelUnlock(c))
    /\ \A c \in Ctxs : SF_vars(CancelLock(c))

LiveSpecSC == SpecSC /\ FairnessSC

\* RunLoop alone
SpecRL == Init /\ [][NextRL]_vars

\* the coordinator's /nodeinventory handler
SpecLP == Init /\ [][NextLP]_vars

\* Every handler goroutine and every goroutine started by Watch that can take a
\* step does, and a handler blocked in inventoryResponseLock.Lock() gets the
\* mutex (sync.Mutex hands it to a starving waiter). Nothing is assumed about
\* syncInventory, the clients or the deadline.
FairnessLP ==
    /\ \A r \in Reqs : WF_vars(LPCheck(r) \/ LPWatch(r) \/ LPGet(r) \/ LPWrite(r) \/ LPWait(r))
    /\ \A r \in Reqs : SF_vars(LPLock(r))
    /\ \A r \in Reqs : WF_vars(LPWatchDone(r))

LiveSpecLP == SpecLP /\ FairnessLP

\* the coordinator's API behind WithAuth
SpecAuth == Init /\ [][NextAuth]_vars

\* the rpc client's handshake
SpecTLS == Init /\ [][NextTLS]_vars

\* the coordinator's main, syncInventory and /registernode
SpecSync == Init /\ [][NextSync]_vars

\* the coordinator's GET /status
SpecStatus == Init /\ [][NextStatus]_vars

\* rpc.GenCertificate
SpecCert == Init /\ [][NextGen]_vars

\* readInventory's loop over the nodes and their container files
SpecRead == Init /\ [][NextRead]_vars

\* syncPodman with a container that cannot be removed
SpecWedge == Init /\ [][NextWedge]_vars

\* A pass always follows a pass, and the runtime answers. The orphan loop
\* and the goal loop range over Go maps, whose iteration starts at a random
\* element: an element that is in the map pass after pass is met first in some
\* pass. Containers need not exit.
FairnessWedge ==
    /\ WF_vars(WedgePs)
    /\ \A c \in WedgePool : SF_vars(WedgeRemove(c))
    /\ \A s \in WedgeSpecs : SF_vars(WedgeKickstart(s))
    /\ \A s \in WedgeSpecs : SF_vars(WedgeStart(s))
    /\ WF_vars(WedgeConverged)

LiveSpecWedge == SpecWedge /\ FairnessWedge

\* the agent's syncInventory and inventory.toml
SpecInvFile == Init /\ [][NextInvFile]_vars

\* The scheduler runs every goroutine of the agent that can take a step, timers
\* fire, and the runtime and the file system answer. Nothing is assumed of the
\* coordinator (a long poll may stay unanswered) nor of the faults.
SyncPodmanStep ==
    \/ SyncPodmanNil
    \/ \E fail \in BOOLEAN : SyncPodmanPs(fail)
    \/ \E c \in snapObs, fail \in BOOLEAN : SyncPodmanRemove(c, fail)
    \/ \E s \in Specs, fail \in BOOLEAN : SyncPodmanKickstart(s, fail)
    \/ \E s \in Specs, fail \in BOOLEAN : SyncPodmanStart(s, fail)
    \/ SyncPodmanConverged

Fairness ==
    /\ \A l \in Loops : WF_vars(LoopRecv(l))
    /\ \A l \in Loops : WF_vars(LoopRetry(l))
    /\ \A l \in Loops : WF_vars(LoopCooldown(l))
    /\ \A l \in Loops : WF_vars(ForwardRecv(l))
    /\ \A l \in Loops : WF_vars(ForwardSend(l))
    /\ \A l \in Loops : WF_vars(Tick(l))
    /\ WF_vars(InvSeed)
    /\ WF_vars(InvWrite)
    /\ WF_vars(InvDecode)
    /\ WF_vars(SyncPodmanStep)

LiveSpec == Spec /\ Fairness

\* The goroutines of the reconciler's RunLoop alone are scheduled: its main loop,
\* its forwarder and syncPodman. The resync ticker and the inventory client may
\* never take a step.
FairnessPodman ==
    /\ WF_vars(LoopRecv("podman"))
    /\ WF_vars(LoopRetry("podman"))
    /\ WF_vars(LoopCooldown("podman"))
    /\ WF_vars(ForwardRecv("podman"))
    /\ WF_vars(ForwardSend("podman"))
    /\ WF_vars(SyncPodmanStep)

LiveSpecPodman == Spec /\ FairnessPodman

----------------------------------------------------------------------------
(* Claims about the reconciler *)

\* observed = goal: every goal container has a running counterpart, every managed
\* container is running and in the goal, every mount file is referenced
ObservedEqualsGoal(inv, obs, files) ==
    /\ \A s \in SeqRange(inv.containers) : \E c \in obs : c.hash = s.hash
    /\ \A c \in obs : ~c.exited /\ \E s \in SeqRange(inv.containers) : s.hash = c.hash
    /\ files \subseteq InUseFiles(obs)

FixedPoint ==
    /\ current # NilInventory
    /\ {c.hash : c \in containers} = {s.hash : s \in SeqRange(current.containers)}
    /\ mounts \subseteq InUseFiles(containers)
    /\ lastPass.muts = <<>>

C2_OneMutationPerPass ==
    /\ [](/\ Len(lastPass.muts) <= 1
          /\ lastPass.reenter = (IF lastPass.muts # <<>> /\ lastPass.muts[1].ok THEN 1 ELSE 0)
          /\ lastPass.muts # <<>> => (lastPass.err = ~lastPass.muts[1].ok)
          /\ lpc["podman"] \in {"get", "act"} => ~ENABLED LoopRecv("podman"))
    /\ [][lpc["podman"] = "act" =>
            Cardinality({c.name : c \in (containers \ containers') \cup (containers' \ containers)})
                <= 1]_vars

\* a pass has removed a container and called ReEnter, waking the watcher
C2_Witness ==
    /\ lastPass.muts # <<>>
    /\ lastPass.muts[1] = Mutation("rm", "web", TRUE)
    /\ lastPass.reenter = 1
    /\ lpc["podman"] = "cooldown"

\* C3. Reconciler idempotence: a pass that observed = goal (and whose mounts/
\* listing succeeds) changes no container, deletes no mount file, does not call
\* ReEnter and returns nil.
C3_Idempotence ==
    [][(/\ lpc["podman"] = "act"
        /\ ObservedEqualsGoal(snapGoal, snapObs, mounts)
        /\ lpc'["podman"] # "act"
        /\ budget' = budget)
       => (/\ containers' = containers
           /\ mounts' = mounts
           /\ wch' = wch
           /\ lastPass' = Pass(<<>>, 0, {}, FALSE)
           /\ lpc'["podman"] = "cooldown")]_vars

\* a pass over a converged, non-empty agent has returned nil without a mutation
C3_Witness ==
    /\ lpc["podman"] = "cooldown"
    /\ lastPass = Pass(<<>>, 0, {}, FALSE)
    /\ current # NilInventory
    /\ containers # {}
    /\ mounts # {}
    /\ ObservedEqualsGoal(current, containers, mounts)

----------------------------------------------------------------------------
(* Claims about the inventory client *)

\* C4. syncInventory replaces inventory.toml and the state value only when the
\* coordinator answered 200: with any other response in hand, the steps that
\* follow client.Get change neither the file nor the state and return an error
\* to RunLoop.
C4_ReplacedOnlyOn200 ==
    [][((InvWrite \/ InvDecode) /\ resp.status # 200)
       => (file' = file /\ current' = current /\ lpc'["inventory"] = "backoff")]_vars

\* C5. The inventory client is a perpetual loop: after a syncInventory call that
\* returned nil, the agent issues another GET /nodeinventory.
C5_PerpetualLongPoll == (lpc["inventory"] = "cooldown") ~> (lpc["inventory"] = "wait")

\* the goal containers of the inventory found on disk at the restart are there and
\* running; all of them, or those that need no decryption by the coordinator
OutageGoalPresent(all) ==
    \A s \in SeqRange(outage.inv.containers) :
        (all \/ s.secrets = 0) => \E c \in containers : c.hash = s.hash /\ ~c.exited

\* the agent restarted during an outage holds the inventory of inventory.toml
OutageSeeded == outage.active /\ current # NilInventory => current = outage.inv

\* the containers of that inventory found at the restart are still there
OutageKept ==
    outage.active => {c.hash : c \in outage.kept} \subseteq {c.hash : c \in containers}

----------------------------------------------------------------------------
(* Claims about the StateContainer (SpecSC) *)

\* the value of s.current after k writes
ValueAt(k) == IF k = 0 THEN 0 ELSE hist[k]

\* a Swap has written and has yet to send to c
BumpPending(c) == \E p \in Procs : cpc[p] = At("Swap", "bump") /\ c \in todo[p]

\* C7. Every Swap wakes every watcher registered when it writes: once the Swap
\* has sent to the watcher, the watcher's channel holds a wake unless the watcher
\* has received one since the write; and the Get a watcher performs after
\* receiving a wake returns the value of a write no older than the last one that
\* preceded the receipt.
C7_SwapWakesWatchers ==
    /\ [](\A c \in watchers : (c \in owed /\ ~BumpPending(c)) => wchan[c] > 0)
    /\ [][\A c \in Ctxs : WatcherGetRead(c) =>
            \E k \in wake[c]..Len(hist) : wret'[c] = ValueAt(k)]_vars

\* both Swaps have returned; a watcher that drained the wake of the first holds
\* the wake of the second, and the other watcher reads the second value
C7_Witness ==
    /\ hist = <<1, 2>>
    /\ completed = 2
    /\ "c2" \in watchers /\ "c2" \in owed /\ wchan["c2"] = 1
    /\ wpc["c1"] = "unlock" /\ wake["c1"] = 2 /\ wret["c1"] = 2

\* C8. Get returns the value of the most recent Swap that has returned, or the
\* zero value when none has, whatever the other goroutines are doing.
C8_GetReturnsLastSwap ==
    [][/\ \A p \in Procs : GetRead(p) => cret'[p] = completed
       /\ \A c \in Ctxs : WatcherGetRead(c) => wret'[c] = completed]_vars

\* a Get has read the second value while another caller waits for the lock
C8_Witness ==
    /\ cpc["p1"] = At("Get", "unlock")
    /\ cret["p1"] = 2
    /\ hist = <<1, 2>>
    /\ cpc["p2"].at = "lock"

\* C9. The channel Watch returns is empty, and stays empty until a Swap or a
\* ReEnter that took the lock after the registration sends to it.
C9_NoStaleWake ==
    [][\A c \in Ctxs :
          /\ WatchRegister(c) => wchan'[c] = 0
          /\ wchan'[c] > wchan[c] =>
                \E p \in Procs : /\ Caller(p) \in locked
                                 /\ cpc[p].at = "bump"
                                 /\ c \in todo[p]
                                 /\ c \in watchers]_vars

\* a watcher has registered after two Swaps returned and its channel is empty
C9_Witness ==
    /\ completed = 2
    /\ hist = <<1, 2>>
    /\ wpc["c2"] = "recv"
    /\ "c2" \in watchers
    /\ "c2" \notin owed
    /\ wchan["c2"] = 0
    /\ wpc["c1"] = "new"

\* C10. Swap and ReEnter never wait for a watcher: inside bumpUnlocked the next
\* step of the caller is always possible, whatever the channels hold, and no
\* channel ever holds more than one wake.
C10_BumpNeverBlocks ==
    /\ \A c \in Ctxs : wchan[c] <= 1
    /\ \A p \in Procs : cpc[p].at = "bump" =>
          /\ \A c \in todo[p] : ENABLED BumpOne(p, c)
          /\ todo[p] = {} => ENABLED BumpDone(p)
    /\ \A p \in Procs : cpc[p].at = "unlock" => ENABLED CallUnlock(p)

\* a Swap has gone past a watcher that has a wake pending and receives nothing
C10_Witness ==
    /\ cpc["p1"] = At("Swap", "unlock")
    /\ hist = <<1, 2>>
    /\ cval["p1"] = 2
    /\ wchan["c2"] = 1
    /\ wpc["c2"] = "recv"
    /\ "c2" \in owed
    /\ wchan["c1"] = 1

\* C11. After ctx is cancelled the goroutine of Watch(ctx) removes the watcher
\* from s.watchers and closes its channel; the channel is closed once; and
\* bumpUnlocked never sends on a closed channel.
C11_CancelClosesOnce ==
    /\ \A c \in Ctxs : (c \in ctxDone /\ dpc[c] # "none") ~> (c \notin watchers /\ wclosed[c])
    /\ [][\A c \in Ctxs : CancelDelete(c) => ~wclosed[c]]_vars
    /\ [](\A p \in Procs : cpc[p].at = "bump" => \A c \in todo[p] : ~wclosed[c])
    /\ [](\A c \in watchers : ~wclosed[c])

\* c1 was cancelled and its channel closed before the first Swap took the lock;
\* that Swap ranges over c2 alone
C11_Witness ==
    /\ dpc["c1"] = "done"
    /\ wclosed["c1"]
    /\ "c1" \notin watchers
    /\ cpc["p1"] = At("Swap", "bump")
    /\ hist = <<1>>
    /\ "c1" \notin owed
    /\ todo["p1"] = {"c2"}

----------------------------------------------------------------------------
(* Claims about RunLoop *)

\* the last pass of the reconciler made a mutation that succeeded
MutationSucceeded == lastPass.muts # <<>> /\ lastPass.muts[1].ok

\* C12. A pass whose mutation succeeded is followed by another pass, started by
\* the wake of ReEnter and not by the resync ticker or an inventory change: the
\* property holds when neither of them ever takes a step.
C12_ReEnterStartsAPass ==
    (lpc["podman"] = "cooldown" /\ MutationSucceeded) ~> (lpc["podman"] = "get")

\* the pass that follows a successful removal has started; the ticker has queued
\* nothing and no inventory was swapped in meanwhile
C12_Witness ==
    /\ lpc["podman"] = "get"
    /\ lastPass.muts # <<>>
    /\ lastPass.muts[1] = Mutation("rm", "web", TRUE)
    /\ lastPass.reenter = 1
    /\ ch["podman"] = 0
    /\ wch = 0
    /\ lpc["inventory"] = "recv"

\* the attempts that will follow from what RunLoop already holds: the item in ch
\* and the signal the forwarder has received and is about to send
Pending(l) == ch[l] + (IF fwd[l] = "send" THEN 1 ELSE 0)

RECURSIVE Grown(_, _)
Grown(k, maxRetry) ==
    IF k = 0 THEN Ms(50) ELSE Min((9 * Grown(k - 1, maxRetry)) \div 8, maxRetry)

\* C14. Within an attempt fn is called again after each false return, and the main
\* loop takes nothing from ch meanwhile; the sleep after the k-th consecutive
\* failure is min(50 ms x 1.125^k, maxRetry): 56.25 ms at first, then 1.125 times
\* the previous one, never less than the previous one, never more than maxRetry;
\* and the next attempt starts again from 56.25 ms.
C14_Backoff ==
    /\ [](rpc = "backoff" =>
            /\ fails >= 1
            /\ lastRetry = Min(Grown(fails, rargs.maxRetry), rargs.maxRetry)
            /\ lastRetry <= rargs.maxRetry)
    /\ [][rpc = "backoff" => (rpc' \in {"backoff", "fn"} /\ rch' >= rch)]_vars
    /\ [][(rpc = "fn" /\ rpc' = "backoff") =>
            /\ lastRetry' >= lastRetry
            /\ fails = 0 => lastRetry' = Min(Ms(56) + 250000, rargs.maxRetry)
            /\ fails > 0 => lastRetry' = Min(lastRetry + lastRetry \div 8, rargs.maxRetry)]_vars
    /\ [][(rpc = "recv" /\ rpc' = "fn") => (lastRetry' = 0 /\ fails' = 0)]_vars

\* C14 as stated: the sleep after the k-th failure is min(50 ms x 1.125^(k-1),
\* maxRetry), 50 ms at first
C14_FirstSleepIs50ms ==
    (rpc = "backoff" /\ fails >= 1) =>
        lastRetry = Min(Grown(fails - 1, rargs.maxRetry), rargs.maxRetry)

\* after the sixth failure in a row the delay has grown from 56.25 ms to the
\* maxRetry of 100 ms, while a signal waits in ch
C14_Witness ==
    /\ rpc = "backoff"
    /\ fails = 6
    /\ rargs.maxRetry = Ms(100)
    /\ lastRetry = Ms(100)
    /\ rch = 1

\* C15. After an attempt that succeeded the cooldown runs before ch is read again:
\* fn is not called within 95 ms (100 ms less the largest jitter) of a call that
\* returned true, even when an attempt is already queued.
C15_Cooldown ==
    /\ []((rpc = "fn" /\ calls = "true") => sinceFn >= Ms(95))
    /\ [][(rpc = "fn" /\ rpc' # "fn" /\ calls' = "true") => rpc' = "cooldown"]_vars
    /\ [][rpc = "cooldown" => rpc' \in {"cooldown", "recv"}]_vars

\* fn is called again 95 ms after a call that returned true, for an attempt that
\* was queued during the first one
C15_Witness ==
    /\ rpc = "fn"
    /\ calls = "true"
    /\ sinceFn = Ms(95)
    /\ signalled = 2
    /\ rch = 1

----------------------------------------------------------------------------
(* Claims about the coordinator's GET /nodeinventory (SpecLP, LiveSpecLP) *)

InFlight(r) == hpc[r] \notin {"idle", "done"}
\* the gitSHA of the coordinator's current state, 0 before the first Swap
CurrentSHA == IF invState = NilState THEN 0 ELSE invState.GitSHA

\* C16: the handler writes an inventory exactly when after is empty or the gitSHA
\* of the state it read differs from after. With that condition true it goes from
\* the read to the mutex and the write without receiving from its watcher; with
\* it false it goes to the receive and writes nothing. No inventory whose gitSHA
\* equals a non-empty after is ever written.
C16_RespondsIffChanged ==
    /\ [](\A r \in Reqs : written[r].status = 200 =>
                            (hAfter[r] = 0 \/ written[r].body # hAfter[r]))
    /\ [][\A r \in Reqs : (hpc[r] = "get" /\ hpc'[r] # "get") =>
            IF hAfter[r] = 0 \/ invState.GitSHA # hAfter[r]
            THEN hpc'[r] = "lock" /\ hstate'[r] = invState
            ELSE hpc'[r] = "wait" /\ written'[r] = NotWritten]_vars
    /\ [][\A r \in Reqs : hpc[r] \in {"lock", "write"} =>
            hpc'[r] \in {"lock", "write", "done"}]_vars
    /\ [][\A r \in Reqs : (written'[r].status = 200 /\ written[r].status # 200) =>
            /\ hpc[r] = "write"
            /\ hAfter[r] = 0 \/ hstate[r].GitSHA # hAfter[r]
            /\ written'[r].body = EncodeNodeInv(hstate[r], NodeFp)]_vars

\* a long poll that registered a watcher has been answered with another gitSHA
C16_Witness ==
    \E r \in Reqs : /\ written[r].status = 200
                    /\ hAfter[r] # 0
                    /\ written[r].body \notin {0, hAfter[r]}
                    /\ watcher[r] # NilChan
                    /\ invSwaps = 2

\* C17: no wake-up is lost. Whenever a long poll is in the handler and the
\* current gitSHA differs from its after, the handler eventually answers 200
\* with an inventory other than after's, unless the request is cancelled, its
\* deadline expires, or the coordinator returns to the gitSHA named by after.
C17_NoLostWakeup ==
    \A r \in Reqs :
        (InFlight(r) /\ hAfter[r] # 0 /\ CurrentSHA # hAfter[r])
            ~> \/ written[r].status = 200 /\ written[r].body # hAfter[r]
               \/ reqDone[r]
               \/ timeoutCtx[r] = "expired"
               \/ CurrentSHA = hAfter[r]

\* the Swap fell between the handler's read and its receive: the handler is about
\* to receive, it read after's gitSHA, and the bump is in its channel
C17_Witness ==
    \E r \in Reqs : /\ hpc[r] = "wait"
                    /\ hstate[r] # NilState
                    /\ hstate[r].GitSHA = hAfter[r]
                    /\ invState.GitSHA # hAfter[r]
                    /\ watcher[r] = [len |-> 1, closed |-> FALSE]
                    /\ ~reqDone[r]
                    /\ timeoutCtx[r] = "live"

\* C18: a request that is cancelled or whose deadline has expired leaves the
\* handler, and its watcher leaves the watchers map; so does the watcher of any
\* request that returned. A handler returns with 200 or 400, a 400 only after a
\* cancellation or the deadline, and a handler that finds its channel closed
\* returns at the next check instead of receiving from it again.
C18_LongPollTerminates ==
    /\ \A r \in Reqs :
         (InFlight(r) /\ (reqDone[r] \/ timeoutCtx[r] = "expired"))
             ~> (hpc[r] = "done" /\ r \notin invWatchers)
    /\ \A r \in Reqs : (hpc[r] = "done") ~> (r \notin invWatchers)
    /\ [](\A r \in Reqs : hpc[r] = "done" => written[r].status \in {200, 400})
    /\ [](\A r \in Reqs : written[r].status = 400 =>
                            (reqDone[r] \/ timeoutCtx[r] = "expired"))
    /\ [][\A r \in Reqs : (hpc[r] = "check" /\ watcher[r] # NilChan /\ watcher[r].closed) =>
            hpc'[r] \in {"check", "done"}]_vars

\* the deadline of a long poll expired with the gitSHA unchanged: 400, the
\* channel closed and the watcher gone, the request never cancelled
C18_Witness ==
    \E r \in Reqs : /\ hpc[r] = "done"
                    /\ written[r].status = 400
                    /\ ~reqDone[r]
                    /\ timeoutCtx[r] = "expired"
                    /\ watcher[r] # NilChan
                    /\ watcher[r].closed
                    /\ r \notin invWatchers
                    /\ invState.GitSHA = hAfter[r]

----------------------------------------------------------------------------
(* Claims about the coordinator's API behind WithAuth (SpecAuth) *)

\* the fingerprint of the certificate of the request being served
CallerFp == GetCertFingerprint(areq.cert)

\* C19: WithAuth calls the wrapped handler if and only if the request carries a
\* certificate, an authorizer is present and it trusts the fingerprint of that
\* certificate. A request with a certificate that the authorizer does not trust,
\* or that meets no authorizer, is answered 403 without the handler being called;
\* a request without a certificate is answered 401, likewise. The handler is
\* called only by a request that passed, and a request that passed calls it.
C19_AuthGate ==
    /\ [][(areq.pc = "WithAuth" /\ areq'.pc # "WithAuth") =>
            LET passes == /\ areq.cert # NoCert
                           /\ areq.auth # Nil
                           /\ TrustsCert(areq.auth, cstate, CallerFp)
            IN /\ (areq'.pc = "next") <=> passes
               /\ (areq.cert # NoCert /\ ~passes) =>
                     (aout'.status = 403 /\ ~aout'.invoked /\ areq'.pc = "done")
               /\ (areq.cert = NoCert) =>
                     (aout'.status = 401 /\ ~aout'.invoked /\ areq'.pc = "done")]_vars
    /\ [][(aout'.invoked /\ ~aout.invoked) => areq.pc = "next"]_vars
    /\ [][(areq.pc = "next") =>
            (areq'.pc = "next" \/ (areq'.pc = "done" /\ aout'.invoked))]_vars
    /\ [](aout.invoked => /\ areq.cert # NoCert
                          /\ areq.auth # Nil
                          /\ TrustsCert(areq.auth, areq.state, CallerFp))
    /\ []((areq.pc = "done" /\ ~aout.invoked) => aout.status \in {401, 403})

\* an agent route has answered 403 to a certificate that the inventory lists
\* as a client only
C19_Witness ==
    /\ aout.status = 403
    /\ ~aout.invoked
    /\ areq.auth = "agentAuth"
    /\ areq.state # NilState
    /\ CallerFp \in areq.state.ClientsByFingerprint
    /\ CallerFp \notin areq.state.NodesByFingerprint

\* C20: the handler of /nodeinventory, /decrypt or /registernode runs only for a
\* caller whose fingerprint was a key of NodesByFingerprint, and the handler of
\* /status or /nodes/:fingerprint/logs only for one whose fingerprint was in
\* ClientsByFingerprint, in the inventory that was current when WithAuth asked
\* the authorizer. The node registry is written only by /registernode, under the
\* caller's own fingerprint, for a caller that was a node.
C20_RoleSplit ==
    /\ [](aout.invoked =>
            IF areq.route \in AgentRoutes
            THEN CallerFp \in areq.state.NodesByFingerprint
            ELSE CallerFp \in areq.state.ClientsByFingerprint)
    /\ [][(areq.pc = "WithAuth" /\ areq'.pc = "next") =>
            /\ areq'.state = cstate
            /\ areq.route \in AgentRoutes => CallerFp \in cstate.NodesByFingerprint
            /\ areq.route \in ClientRoutes => CallerFp \in cstate.ClientsByFingerprint]_vars
    /\ [][(nodeStore' # nodeStore) =>
            /\ areq.route = "/registernode"
            /\ nodeStore' = nodeStore \cup {CallerFp}
            /\ CallerFp \in areq.state.NodesByFingerprint]_vars

\* /registernode has run for a node that is not a client and that sent the
\* fingerprint of another caller, and the inventory has since dropped the node
C20_Witness ==
    /\ aout.invoked
    /\ areq.route = "/registernode"
    /\ CallerFp \in areq.state.NodesByFingerprint
    /\ CallerFp \notin areq.state.ClientsByFingerprint
    /\ nodeStore = {CallerFp}
    /\ CallerFp \notin cstate.NodesByFingerprint

\* C21: the handler reads the fingerprint computed from the caller's certificate,
\* whatever fingerprint parameters the request was sent with: the query it runs
\* with holds that value alone, /nodeinventory encodes the inventory of the
\* caller's node or nothing, and /registernode adds only the caller's own key
\* to the registry.
C21_VerifiedFingerprint ==
    /\ [](areq.pc = "next" => (areq.query = <<CallerFp>> /\ QueryGet(areq.query) = CallerFp))
    /\ []((aout.invoked /\ areq.route = "/nodeinventory") => aout.nodeinv \in {CallerFp, Nil})
    /\ [][(aout'.invoked /\ ~aout.invoked) =>
            /\ QueryGet(areq.query) = CallerFp
            /\ nodeStore' \subseteq nodeStore \cup {CallerFp}
            /\ (areq.route = "/nodeinventory" /\ CallerFp \in cstate.NodesByFingerprint) =>
                  aout'.nodeinv = CallerFp]_vars

\* /nodeinventory answered a caller that had sent the fingerprint of another
\* node of the inventory first in its query
C21_Witness ==
    /\ aout.invoked
    /\ areq.route = "/nodeinventory"
    /\ areq.sent # <<>>
    /\ QueryGet(areq.sent) # CallerFp
    /\ QueryGet(areq.sent) \in cstate.NodesByFingerprint
    /\ aout.nodeinv = CallerFp

----------------------------------------------------------------------------
(* Claims about the rpc client (SpecTLS) *)

\* the server presented a certificate whose fingerprint the authorizer trusts
SomeCertTrusted ==
    \E i \in 1..Len(dial.rawCerts) :
        AuthorizerTrusts(dial.trusts, GetCertFingerprint(dial.rawCerts[i]))

\* C22: the handshake is accepted if and only if the authorizer trusts the
\* fingerprint of at least one certificate the server presented; otherwise it
\* fails with ErrUntrustedServer carrying the fingerprint of the leaf, and the
\* request is not delivered.
C22_HandshakeTrust ==
    /\ [][(dial.pc = "verify" /\ dial'.pc # "verify") =>
            /\ (dial'.pc = "established") <=> SomeCertTrusted
            /\ ~SomeCertTrusted =>
                  /\ dial'.pc = "failed"
                  /\ dial'.err = ErrUntrustedServer(GetCertFingerprint(dial.rawCerts[1]))
                  /\ ~dial'.delivered]_vars
    /\ [](dial.pc \in {"established", "done"} => SomeCertTrusted)
    /\ [](dial.pc = "failed" => (~SomeCertTrusted /\ ~dial.delivered))
    /\ [](dial.pc \in {"verify", "established", "done", "failed"} =>
            (dial.delivered => dial.pc = "done"))
    /\ [][dial.pc = "failed" => dial'.pc \in {"failed", "idle"}]_vars

\* a request was delivered over a connection whose leaf the authorizer does not
\* trust, because it trusts the second certificate of the chain
C22_Witness ==
    /\ dial.pc = "done"
    /\ dial.delivered
    /\ Len(dial.rawCerts) = 2
    /\ ~AuthorizerTrusts(dial.trusts, GetCertFingerprint(dial.rawCerts[1]))
    /\ AuthorizerTrusts(dial.trusts, GetCertFingerprint(dial.rawCerts[2]))


(* ------------------------------------------------------------------------ *)
(* C23: the coordinator's inventory is replaced only by the one Swap of      *)
(* syncInventory, which installs the inventory built completely from the     *)
(* pulled commit, and only when the pulled SHA differs from the installed    *)
(* one; a watcher is woken by no other step, so a sync that pulls the        *)
(* installed SHA swaps nothing and wakes nobody.                             *)
(* ------------------------------------------------------------------------ *)

\* the inventory readInventory builds from a commit
BuiltFrom(commit) ==
    IF commit.cluster.kind = "toml"
    THEN [GitSHA |-> commit.sha, NodesByFingerprint |-> commit.cluster.nodes,
          ClientsByFingerprint |-> commit.cluster.clients]
    ELSE [GitSHA |-> commit.sha, NodesByFingerprint |-> {}, ClientsByFingerprint |-> {}]

InstallsNewSHA ==
    /\ spc = "swap"
    /\ kstate' = BuiltFrom(workdir)
    /\ IF kstate = NilState THEN TRUE ELSE kstate.GitSHA # kstate'.GitSHA

\* C23: every change of the installed inventory, and every wake-up of a
\* watcher, is the Swap of a complete inventory with a new SHA
C23_SwapOnlyOnNewSHA ==
    [][((kstate' # kstate /\ kstate' # NilState) \/ (kwatch = 0 /\ kwatch' = 1))
         => InstallsNewSHA]_vars

C23_Witness ==
    /\ kstate # NilState
    /\ kstate.GitSHA = 3
    /\ kstate.NodesByFingerprint = {"fpA", "fpB"}
    /\ kwatch = 1
    /\ spc = "returned"


(* ------------------------------------------------------------------------ *)
(* C24: the coordinator serves its private listener only after a             *)
(* syncInventory has returned nil and installed an inventory; after a first  *)
(* sync that fails the process ends without having listened.                 *)
(* ------------------------------------------------------------------------ *)

\* C24: while the listener is open an inventory is installed, and main leaves
\* its first sync for the listener only with a nil error, else it exits
C24_ListensAfterSync ==
    /\ mainpc = "serving" => kstate # NilState
    /\ (mainpc = "sync" /\ spc = "returned" /\ sres = "err") => kstate = NilState
    /\ mainpc = "exited" => (sres = "err" /\ kstate = NilState /\ reg = NoRegister)

C24_Witness ==
    /\ mainpc = "serving"
    /\ kstate # NilState
    /\ reg # NoRegister
    /\ workdir.sha = 2

(* ------------------------------------------------------------------------ *)
(* C25: whenever syncInventory returns nil and no /registernode was in       *)
(* flight during the call, the node-metadata registry holds no key outside   *)
(* the installed NodesByFingerprint and has kept every entry whose key is in *)
(* it. readInventory returns before its pruning loop when cluster.toml is    *)
(* absent, and syncInventory returns before readInventory when the SHA is    *)
(* unchanged, so the registry keeps keys the installed inventory lacks.      *)
(* ------------------------------------------------------------------------ *)

\* C25: after a successful sync the registry is pruned to the inventory
C25_PrunedOnEverySync ==
    (spc = "returned" /\ sres = "ok" /\ ~regDuring /\ reg = NoRegister) =>
        /\ StoreKeys(nms) \subseteq kstate.NodesByFingerprint
        /\ \A e \in nmsBefore : e[1] \in kstate.NodesByFingerprint => e \in nms


----------------------------------------------------------------------------
(* Claims about the reconciler's mount files and kickstart (Spec, LiveSpec) *)

\* the pass that ends in this step went past the orphan loop to the clean-up of
\* mounts/ and returns nil
CleanupPassSucceeds ==
    /\ lpc["podman"] = "act"
    /\ lpc'["podman"] = "cooldown"
    /\ \A i \in DOMAIN lastPass'.muts : lastPass'.muts[i].op # "rm"

\* C26. The clean-up of a pass deletes a file of mounts/ only if no container the
\* pass observed, and no existing container, names it in recomposeMounts; after a
\* pass that reached the clean-up and returned nil every file of mounts/ is named
\* by an existing managed container.
C26_MountFileLifecycle ==
    [][/\ (mounts \ mounts') \cap (InUseFiles(snapObs) \cup InUseFiles(containers)) = {}
       /\ CleanupPassSucceeds => mounts' \subseteq InUseFiles(containers')]_vars

C26_Witness ==
    /\ lastPass.deleted # {}
    /\ ~lastPass.err
    /\ mounts # {}
    /\ mounts \subseteq InUseFiles(containers)
    /\ lpc["podman"] = "cooldown"


Hashes == {s.hash : s \in Specs}

\* the goal holds a container with hash h whose counterpart has exited and does
\* not carry kickstart=false, and no managed container is an orphan
ExitedGoal(h) ==
    /\ current # NilInventory
    /\ h \in DOMAIN GoalIndex(current)
    /\ \E c \in containers : c.hash = h /\ c.exited /\ c.kickstart # "false"
    /\ Orphans(containers, current) = {}

\* a container leaves the exited state in this step
Restarted(c) ==
    /\ c \in containers
    /\ c.exited
    /\ [c EXCEPT !.exited = FALSE] \in containers'

\* C27. A goal container whose counterpart has exited without kickstart=false,
\* with no orphan present, does not stay exited: a later pass restarts it. A
\* container leaves the exited state only in a pass whose one mutation is podman
\* start of that container, followed by ReEnter and return nil; and podman start
\* is invoked only for a container the pass observed as exited.
C27_RestartOnExit ==
    /\ \A h \in Hashes : ExitedGoal(h) ~> ~ExitedGoal(h)
    /\ [][/\ \A c \in containers : Restarted(c) =>
                 /\ lastPass' = Pass(<<Mutation("start", c.name, TRUE)>>, 1,
                                     mounts \ mounts', FALSE)
                 /\ lpc["podman"] = "act"
                 /\ lpc'["podman"] = "cooldown"
                 /\ containers' = (containers \ {c}) \cup {[c EXCEPT !.exited = FALSE]}
          /\ \A i \in DOMAIN lastPass'.muts :
                 (lastPass' # lastPass /\ lastPass'.muts[i].op = "start") =>
                     \E c \in snapObs : c.name = lastPass'.muts[i].name /\ c.exited]_vars

C27_Witness ==
    /\ lastPass = Pass(<<Mutation("start", "db", TRUE)>>, 1, {}, FALSE)
    /\ \E c \in containers : c.name = "db" /\ ~c.exited
    /\ lpc["podman"] = "cooldown"


\* flags.restart of the spec with this hash is a string other than always and
\* unless-stopped
RestartSuppressed(h) ==
    \E s \in Specs : s.hash = h /\ s.restart \notin {"", "always", "unless-stopped"}

\* C28. Every container created from a spec whose flags.restart is a string other
\* than always or unless-stopped carries the label kickstart=false, and no pass
\* invokes podman start for such a container. getPodmanFlags adds no kickstart
\* label, so the reconciler restarts these containers when they have exited.
C28_RestartSuppression ==
    /\ \A c \in containers : RestartSuppressed(c.hash) => c.kickstart = "false"
    /\ \A i \in DOMAIN lastPass.muts :
           lastPass.muts[i].op = "start" =>
               \A c \in containers :
                   c.name = lastPass.muts[i].name => ~RestartSuppressed(c.hash)


----------------------------------------------------------------------------
(* Claims about the coordinator's GET /status (SpecStatus) *)

\* the /ps query of this node failed or timed out: no decodable 200 response
QueryFailed(n) == ~(qres[n].kind = "response" /\ qres[n].status = 200 /\ qres[n].json)
Queried == {n \in StatusNodes : qres[n] # NotQueried}

\* C29: GET /status answers 206 if and only if the /ps query of at least one
\* node of the registry failed or timed out, and 200 otherwise; the body holds
\* exactly the containers the nodes whose query succeeded reported, each with
\* the fingerprint of its node.
C29_StatusPartial ==
    stpc = "done" =>
        /\ stcode = 206 <=> \E n \in Queried : QueryFailed(n)
        /\ stcode \in {200, 206}
        /\ stbody = UNION {{<<name, n>> : name \in qres[n].names} :
                              n \in {m \in Queried : ~QueryFailed(m)}}

C29_Witness ==
    /\ stpc = "done"
    /\ stcode = 206
    /\ qres["fpA"] = PsTimeout
    /\ qres["fpB"] = PsResponse(200, TRUE, {"web", "db"})
    /\ qres["fpC"] = PsResponse(200, FALSE, {})
    /\ stbody = {<<"web", "fpB">>, <<"db", "fpB">>}


----------------------------------------------------------------------------
(* Claims about rpc.GenCertificate (SpecCert) *)

\* C30: a call of GenCertificate that follows a successful call on the same
\* directory returns the certificate and the fingerprint of that call, when
\* nothing happened to the directory in between and when only
\* cert-fingerprint.txt was deleted, and it leaves the file in place. The
\* loaded pair's fingerprint is taken from the file without comparing it with
\* the certificate, so after the file is deleted the call returns the
\* certificate's fingerprint where the call before returned the file's.
C30_FingerprintStable ==
    (gpc = "idle" /\ gret.kind = "ok" /\ gprev.kind = "ok"
         /\ gprev.since \in {"nothing", "fpdeleted"}) =>
        /\ gret.cert = gprev.cert
        /\ gret.fingerprint = gprev.fingerprint
        /\ gsince = "nothing" => fingerprintFile # Absent


\* C31: when a call of GenCertificate has returned without error, the
\* fingerprint it returned and the content of cert-fingerprint.txt are both the
\* SHA-256 of the certificate in cert.pem. A pair that loads is returned with
\* whatever cert-fingerprint.txt holds, so a file left by an interrupted or
\* failed regeneration is returned, and kept, as the fingerprint.
C31_FingerprintMatchesCert ==
    (gpc = "idle" /\ gret.kind = "ok" /\ gsince = "nothing") =>
        /\ certFile = CertPem(gret.cert)
        /\ gret.fingerprint = LeafFingerprint(certFile.id)
        /\ fingerprintFile = TextFile(LeafFingerprint(certFile.id))


----------------------------------------------------------------------------
(* Further claims about the reconciler (Spec, LiveSpec) *)

\* the pass that ends in this step invoked podman run
PassRuns ==
    /\ lpc["podman"] = "act"
    /\ lpc'["podman"] # "act"
    /\ \E i \in DOMAIN lastPass'.muts : lastPass'.muts[i].op = "run"

\* C32. A pass invokes podman run only when every managed container has a hash
\* of the goal the pass read, and such a pass removes nothing: the container of
\* a replaced hash is removed by an earlier pass than the one that runs its
\* successor, and no two managed containers ever have the same name.
C32_RemoveBeforeRun ==
    /\ [](\A c, d \in containers : c.name = d.name => c = d)
    /\ [][PassRuns =>
             /\ \A c \in containers \cup snapObs : c.hash \in DOMAIN GoalIndex(snapGoal)
             /\ \A i \in DOMAIN lastPass'.muts : lastPass'.muts[i].op # "rm"
             /\ containers \subseteq containers']_vars

C32_Witness ==
    /\ current = InvAt(2)
    /\ lastPass.muts = <<Mutation("run", "web", TRUE)>>
    /\ \E c \in containers : c.name = "web" /\ c.hash = "h2"
    /\ \A c \in containers : c.hash # "h1"
    /\ lastPass.deleted # {}


\* podmanStart returned the error of a /decrypt request: the pass ends with an
\* error, without a mutation and without a fault of the runtime or the disk
DecryptAborted ==
    /\ lpc["podman"] = "act"
    /\ lpc'["podman"] = "backoff"
    /\ lastPass'.muts = <<>>
    /\ budget' = budget

\* the goal container podman run was invoked for needs a secret
RunsWithSecrets ==
    /\ PassRuns
    /\ \E s \in Range(GoalIndex(snapGoal)) :
           s.name = lastPass'.muts[1].name /\ s.secrets > 0

\* C33. When a /decrypt request of podmanStart fails, the pass returns an error
\* having written no file under mounts/, invoked no runtime command and called
\* no ReEnter; podman run is invoked for a spec with secrets only when the
\* coordinator answered every /decrypt.
C33_SecretFailureAborts ==
    [][/\ DecryptAborted =>
              /\ mounts' \subseteq mounts
              /\ containers' = containers
              /\ wch' = wch
              /\ lastPass'.reenter = 0
              /\ lastPass'.err
       /\ RunsWithSecrets => (coordUp /\ trusted)]_vars

C33_Witness ==
    /\ ~trusted
    /\ budget.faults = MaxFaults
    /\ current = InvAt(1)
    /\ lastPass = Pass(<<>>, 0, {}, TRUE)
    /\ lpc["podman"] = "backoff"
    /\ containers = {}
    /\ mounts = {}


----------------------------------------------------------------------------
(* Claims about the coordinator's inventory and registry (SpecRead, SpecSync, SpecLP) *)

\* the paths a node declares whose file can be read and decoded, in order
RECURSIVE GoodPaths(_, _)
GoodPaths(paths, files) ==
    IF paths = <<>> THEN <<>>
    ELSE IF files[Head(paths)] = "ok"
         THEN <<Head(paths)>> \o GoodPaths(Tail(paths), files)
         ELSE GoodPaths(Tail(paths), files)

\* the last [[node]] of cluster.toml with this fingerprint
LastNode(fingerprint) ==
    rdNodes[CHOOSE i \in DOMAIN rdNodes :
               /\ rdNodes[i].Fingerprint = fingerprint
               /\ \A j \in DOMAIN rdNodes : rdNodes[j].Fingerprint = fingerprint => j <= i]

\* C34: a container file that cannot be opened or decoded does not end
\* readInventory: the loop reaches its end, every node with a fingerprint is a
\* key of NodesByFingerprint, and its inventory holds, in declared order,
\* exactly the containers whose files could be read, whatever other nodes
\* declare.
C34_BadContainerFileSkipped ==
    rdpc = "done" =>
        /\ DOMAIN rdInv = {rdNodes[i].Fingerprint : i \in DOMAIN rdNodes} \ {""}
        /\ \A f \in DOMAIN rdInv :
               LET good == GoodPaths(LastNode(f).Containers, rdFiles)
               IN  /\ Len(rdInv[f]) = Len(good)
                   /\ \A k \in DOMAIN good : rdInv[f][k] = ReadContainerSpec(good[k])

C34_Witness ==
    /\ rdpc = "done"
    /\ rdFiles = [p \in Paths |-> IF p = "web.toml" THEN "malformed" ELSE "ok"]
    /\ rdNodes = <<NodeSpec("fpA", <<"web.toml", "db.toml">>), NodeSpec("fpB", <<"db.toml", "web.toml">>)>>
    /\ rdInv["fpA"] = <<ReadContainerSpec("db.toml")>>
    /\ rdInv["fpB"] = <<ReadContainerSpec("db.toml")>>

\* C35: while the removal of one orphan keeps failing, every other orphan is
\* eventually removed and every container of the goal that the runtime does
\* not hold is eventually started.
C35_WedgedRemovalDoesNotStall ==
    /\ \A c \in WedgePool :
           (c \in wContainers /\ c.name # wedged /\ IsOrphan(c, GoalIndex(wGoal)))
               ~> (c \notin wContainers)
    /\ \A s \in WedgeSpecs :
           (/\ wdpc # "setup"
            /\ s \in Range(GoalIndex(wGoal))
            /\ ~\E c \in wContainers : c.hash = s.hash)
               ~> (\E c \in wContainers : c.hash = s.hash)

\* the first half of C35 for the orphans whose recomposeHash label differs
\* from the wedged container's: these do get removed
OtherOrphansRemoved ==
    \A c \in WedgePool :
        (/\ c \in wContainers
         /\ IsOrphan(c, GoalIndex(wGoal))
         /\ \A d \in wContainers : d.name = wedged => d.hash # c.hash)
            ~> (c \notin wContainers)

\* C36: when a pass of syncPodman finds nothing left to do, every
\* ContainerSpec of the goal inventory has a container of its own name, also
\* when two specs carry the same hash, and no observed container that is an
\* orphan was passed over, also when two of them carry the same or no
\* recomposeHash label.
C36_OneContainerPerSpec ==
    [][WedgeConverged =>
          /\ \A i \in DOMAIN wGoal.containers :
                 \E c \in wContainers : c.name = wGoal.containers[i].name /\ c.hash = wGoal.containers[i].hash
          /\ \A c \in wObs : ~IsOrphan(c, GoalIndex(wGoal))]_vars

\* the second half of C36 alone: a pass that finds nothing to do has passed
\* over no orphan
NoOrphanPassedOver ==
    [][WedgeConverged => \A c \in wObs : ~IsOrphan(c, GoalIndex(wGoal))]_vars

\* C37: outside the window between os.WriteFile and state.Swap, inventory.toml
\* decodes without error to the inventory the state holds; a 200 body that
\* does not decode leaves the file as it was; and a restart seeds the state
\* with an inventory that syncInventory had installed.
C37_FileDecodesToState ==
    /\ [](ivPc # "decode" /\ ivState # NilInventory /\ ivFile # NoFile
             => TomlDecode(ivFile) = <<ivState, FALSE>>)
    /\ [][(InvFileDecode /\ TomlDecode(ivResp.body)[2]) => ivFile # ivResp.body]_vars
    /\ [][(InvFileSeed /\ ivState = NilInventory /\ ivFile # NoFile)
             => ivState' \in ivInstalled]_vars

\* a /registernode request stores its entry although the inventory installed
\* since its authorization no longer holds the node
StaleRegistration ==
    /\ RegisterSet
    /\ ~SyncRunning
    /\ reg.fingerprint \notin kstate.NodesByFingerprint

\* C38: whenever no sync is in progress every key of the registry is a
\* fingerprint of the installed NodesByFingerprint, and no /registernode
\* request that was authorized against an earlier inventory stores an entry
\* for a node the installed inventory lacks.
C38_RegistryWithinInventory ==
    /\ [](~SyncRunning /\ kstate # NilState
             => StoreKeys(nms) \subseteq kstate.NodesByFingerprint)
    /\ [][~StaleRegistration]_vars

\* the second half of C38 alone
NoStaleRegistration == [][~StaleRegistration]_vars

\* C39: the handler of /nodeinventory writes a response body only from a
\* snapshot whose NodesByFingerprint holds the caller's fingerprint: a caller
\* that was dropped from the inventory after its authorization gets no 200
\* with an empty inventory.
C39_ResponseOnlyForListedNode ==
    [][\A r \in Reqs :
          (hpc[r] = "write" /\ written'[r].status = 200)
              => /\ NodeFp \in hstate[r].NodesByFingerprint
                 /\ written'[r].body = hstate[r].GitSHA]_vars


----------------------------------------------------------------------------
(* Claims about RunLoop's shutdown (SpecRL) *)

\* C40: once the signal channel is closed and the forwarder has closed ch,
\* nothing sends on ch, the resync ticker included, so no goroutine panics,
\* and ch only drains.
C40_CleanShutdown ==
    /\ [](~rpanic)
    /\ [][rchClosed => rch' <= rch]_vars

\* the same without a resync ticker
CleanShutdownWithoutResync ==
    [](rargs.resync = 0 => ~rpanic)

============================================================================
